---------------------------- MODULE Spec2Model ----------------------------
(***************************************************************************)
(* A model of the floating video overlay of blink/chatwindow.py            *)
(* (class VideoWidget): the placement of the overlay (docked in its        *)
(* container, detached as a floating window, fullscreen), the detach and   *)
(* preview animations, the camera preview's repositioning on resize and    *)
(* the tool buttons.                                                       *)
(*                                                                         *)
(* Rectangles are QRect values: a position and a size in whole pixels,     *)
(* right = x + w - 1 and bottom = y + h - 1.  Floating point expressions   *)
(* of the source (QRectF, QSizeF, the resize ratio, the scale factor) are  *)
(* computed exactly, as fractions of integers.                             *)
(***************************************************************************)
EXTENDS Integers, Sequences, FiniteSets, TLC

(***************************************************************************)
(* Program constants.                                                      *)
(***************************************************************************)
PreviewMinHeight == 45
PreviewMaxHeight == 135
PreviewInitHeight == 81
WidgetSizeMax == 16777215
HeightOffset == 117
HeightDivisor == 6
ReservedHeight == 175
DetachedHeight == 261
CornerInset == 10

\* The fixed aspect ratio of the video surface, AspectW : AspectH.
AspectW == 16
AspectH == 9

(***************************************************************************)
(* Integer helpers.                                                        *)
(***************************************************************************)
Min(a, b) == IF a <= b THEN a ELSE b
Max(a, b) == IF a >= b THEN a ELSE b

\* floor and ceiling of n/d, d > 0
FloorDiv(n, d) == n \div d
CeilDiv(n, d) == -((-n) \div d)
\* C++ integer division (toward zero) of n by d, d > 0
TruncDiv(n, d) == IF n >= 0 THEN n \div d ELSE -((-n) \div d)

(***************************************************************************)
(* QRect and QSize.                                                        *)
(***************************************************************************)
Rect(x, y, w, h) == [x |-> x, y |-> y, w |-> w, h |-> h]
SizeOf(r) == <<r.w, r.h>>
RectOfSize(s) == Rect(0, 0, s[1], s[2])
Left(r) == r.x
Top(r) == r.y
Right(r) == r.x + r.w - 1
Bottom(r) == r.y + r.h - 1
CenterX(r) == TruncDiv(Left(r) + Right(r), 2)
CenterY(r) == TruncDiv(Top(r) + Bottom(r), 2)
Translated(r, dx, dy) == [r EXCEPT !.x = r.x + dx, !.y = r.y + dy]
MoveLeft(r, p) == [r EXCEPT !.x = p]
MoveTop(r, p) == [r EXCEPT !.y = p]
MoveRight(r, p) == [r EXCEPT !.x = p - r.w + 1]
MoveBottom(r, p) == [r EXCEPT !.y = p - r.h + 1]
\* QRect.moveCenter: x1 = cx - (x2 - x1)/2, y1 = cy - (y2 - y1)/2
MoveCenter(r, cx, cy) ==
    [r EXCEPT !.x = cx - TruncDiv(r.w - 1, 2), !.y = cy - TruncDiv(r.h - 1, 2)]
SizeIsValid(s) == s[1] >= 0 /\ s[2] >= 0
\* r lies inside the rectangle (0, 0, s) of a host of size s
ContainedIn(r, s) ==
    /\ Left(r) >= 0
    /\ Top(r) >= 0
    /\ Right(r) <= s[1] - 1
    /\ Bottom(r) <= s[2] - 1

(***************************************************************************)
(* VideoSurface.width_for_height and height_for_width, for a height or     *)
(* width given as the fraction n/d.                                        *)
(***************************************************************************)
WidthForHeightQ(n, d) == FloorDiv(AspectW * n, AspectH * d)
WidthForHeight(h) == WidthForHeightQ(h, 1)
HeightForWidth(w) == FloorDiv(AspectH * w, AspectW)

\* application.python.limit(value, min, max) on the fraction n/d
LimitQ(n, d, lo, hi) ==
    IF n < lo * d THEN <<lo, 1>> ELSE IF n > hi * d THEN <<hi, 1>> ELSE <<n, d>>

(***************************************************************************)
(* VideoWidget.resizeEvent, lines 1066-1113: the preview's new rectangle   *)
(* for a resize of the overlay from oldSize to newSize (old height > 0,    *)
(* heights different).  sf is the scale factor as a fraction <<n, d>>.     *)
(***************************************************************************)
\* scaled_preview_geometry.toAlignedRect(), clamped to the right and bottom
\* edge of self.rect()
IdealGeometry(prev, oldSize, newSize) ==
    LET nh == newSize[2]
        oh == oldSize[2]
        xmin == FloorDiv(prev.x * nh, oh)
        xmax == CeilDiv((prev.x + prev.w) * nh, oh)
        ymin == FloorDiv(prev.y * nh, oh)
        ymax == CeilDiv((prev.y + prev.h) * nh, oh)
        aligned == Rect(xmin, ymin, xmax - xmin, ymax - ymin)
        r1 == IF Right(aligned) > newSize[1] - 1
              THEN MoveRight(aligned, newSize[1] - 1) ELSE aligned
    IN  IF Bottom(r1) > newSize[2] - 1 THEN MoveBottom(r1, newSize[2] - 1) ELSE r1

\* QRectF.contains of the scaled preview center, for the cell (row, col) of
\* the grid of thirds of newSize; both edges of a cell belong to it.  The
\* center is ((2x + w) * nh / (2 * oh), (2y + h) * nh / (2 * oh)).
InCell(prev, oldSize, newSize, row, col) ==
    LET nw == newSize[1]
        nh == newSize[2]
        d  == 2 * oldSize[2]
        cx3 == 3 * (2 * prev.x + prev.w) * nh
        cy3 == 3 * (2 * prev.y + prev.h) * nh
    IN  /\ nw > 0 /\ nh > 0
        /\ col * nw * d <= cx3 /\ cx3 <= (col + 1) * nw * d
        /\ row * nh * d <= cy3 /\ cy3 <= (row + 1) * nh * d

NoCell == 9
Cells == 0..8
\* the branch of the if/elif chain that is taken: cell 3 * row + col, the
\* first in the order of the chain, NoCell when no branch is taken
Gravity(prev, oldSize, newSize) ==
    LET hit == {k \in Cells : InCell(prev, oldSize, newSize, k \div 3, k % 3)}
    IN  IF hit = {} THEN NoCell ELSE CHOOSE k \in hit : \A j \in hit : k <= j

\* variant: the new height is not limited
NewPreviewSizeUnlimited(newSize, sf, maxH) ==
    LET n == (newSize[2] + HeightOffset) * sf[1]
        d == HeightDivisor * sf[2]
    IN  Rect(0, 0, WidthForHeightQ(n, d), FloorDiv(n, d))

\* new_height and the rectangle QRect(0, 0, width_for_height(new_height), new_height)
NewPreviewSize(newSize, sf, maxH) ==
    LET n == (newSize[2] + HeightOffset) * sf[1]
        d == HeightDivisor * sf[2]
        q == LimitQ(n, d, PreviewMinHeight, maxH)
    IN  Rect(0, 0, WidthForHeightQ(q[1], q[2]), FloorDiv(q[1], q[2]))

\* variant: every branch of the chain moves the top left corner
ReanchorTopLeft(pg, ideal, cell) ==
    IF cell \in Cells THEN MoveTop(MoveLeft(pg, Left(ideal)), Top(ideal)) ELSE pg

\* the branches of the if/elif chain, lines 1088-1111
Reanchor(pg, ideal, cell) ==
    CASE cell = 0 -> MoveTop(MoveLeft(pg, Left(ideal)), Top(ideal))
      [] cell = 1 -> MoveTop(MoveCenter(pg, CenterX(ideal), CenterY(ideal)), Top(ideal))
      [] cell = 2 -> MoveTop(MoveRight(pg, Right(ideal)), Top(ideal))
      [] cell = 3 -> MoveLeft(MoveCenter(pg, CenterX(ideal), CenterY(ideal)), Left(ideal))
      [] cell = 4 -> MoveCenter(pg, CenterX(ideal), CenterY(ideal))
      [] cell = 5 -> MoveRight(MoveCenter(pg, CenterX(ideal), CenterY(ideal)), Right(ideal))
      [] cell = 6 -> MoveBottom(MoveLeft(pg, Left(ideal)), Bottom(ideal))
      [] cell = 7 -> MoveBottom(MoveCenter(pg, CenterX(ideal), CenterY(ideal)), Bottom(ideal))
      [] cell = 8 -> MoveBottom(MoveRight(pg, Right(ideal)), Bottom(ideal))
      [] OTHER -> pg

Reposition(prev, oldSize, newSize, sf, maxH) ==
    Reanchor(NewPreviewSize(newSize, sf, maxH),
             IdealGeometry(prev, oldSize, newSize),
             Gravity(prev, oldSize, newSize))


(***************************************************************************)
(* The environment of the overlay: the screen, the place of the container  *)
(* on it, and the sizes the container takes.                               *)
(***************************************************************************)
ScreenW == 1280
ScreenH == 800
ContainerX == 100
ContainerY == 60
ContainerSizes == {<<800, 600>>, <<640, 700>>, <<400, 300>>}
ScreenRect == Rect(0, 0, ScreenW, ScreenH)

\* the number of timer ticks a detach/attach animation and a preview
\* animation take
\* the heights the user gives the preview, and the sizes of the container as
\* the user resizes its window by hand
PreviewHeights == {45, 100, 135}
SmallSizes == {<<400, 175>>, <<400, 100>>, <<0, 0>>}
HandSizes == {<<800, 600>>, <<640, 700>>, <<400, 300>>, <<400, 290>>}
DetachSteps == 2
PreviewSteps == 1
\* the number of user and session events of a run (timer events are not counted)
MaxEvents == 7

MaxShots == 3
ShotNames == {"VideoCall-a", "VideoCall-b"}
Buttons == {"fullscreen", "screenshot", "detach", "mute", "hold", "close"}
NoRect == Rect(0, 0, -1, -1)

VARIABLES
    parent,            \* self.parent(): "container" or "none" (top-level)
    geometry,          \* self.geometry()
    visible,           \* self.isVisible()
    fullScreen,        \* self.isFullScreen()
    normalGeometry,    \* the geometry showNormal() restores
    container,         \* size of parent_widget
    detachChecked,     \* detach_button.isChecked()
    fullscreenChecked, \* fullscreen_button.isChecked()
    active,            \* the buttons whose 'active' property is True
    shown,             \* the buttons that are visible
    detachAnim,        \* detach_animation
    previewAnim,       \* preview_animation
    preview,           \* camera_preview.geometry()
    scaleFactor,       \* camera_preview.scale_factor, a fraction <<n, d>>
    previewMaxHeight,  \* camera_preview.maximumHeight()
    previewInteractive,\* camera_preview.interactive
    idleTimer,         \* idle_timer.isActive()
    cursor,            \* "Arrow" or "Blank"
    session,           \* the session: "idle", "connecting", "connected"
    video,             \* 'video' in blink_session.streams
    events,            \* the number of user and session events so far
    last,              \* history: the handler that ran last
    track,             \* history: the transition sequence under way
    interaction,       \* self._interaction.active: a drag of the overlay is on
    hover,             \* the tool button under the pointer, or "none"
    previewDrag,       \* camera_preview._interaction.active
    legs,              \* history: animation legs started, finished, given up
    protocol,          \* no_flicker_widget.isVisible(), and history: the calls
                       \* on the two windows the handler that ran last made
    raised,            \* history: the resize of the container that came last
                       \* ended in an exception
    files,             \* for each base name, the numbers k of the files
                       \* name-k.png (0: name.png) in the screenshots directory
    queued,            \* the screenshots with an image whose save waits for the
                       \* file-io thread
    saved,             \* history: the files the saves have written, in order
    fault,             \* history: the attribute that was None when a handler
                       \* called a method of it, or "none"
    frames,            \* the producers and the cached images (_image) of the
                       \* overlay and of the camera preview
    chatInput          \* the ChatTextInput of the session, as one value

widgetVars == <<parent, geometry, visible, fullScreen, normalGeometry, container,
                detachChecked, fullscreenChecked, active, shown, detachAnim,
                previewAnim, preview, scaleFactor, previewMaxHeight,
                previewInteractive, idleTimer, cursor>>

\* The widget as one value, for the operators that model its methods.
Cur ==
    [parent |-> parent, geometry |-> geometry, visible |-> visible,
     fullScreen |-> fullScreen, normalGeometry |-> normalGeometry,
     container |-> container, detachChecked |-> detachChecked,
     fullscreenChecked |-> fullscreenChecked, active |-> active, shown |-> shown,
     detachAnim |-> detachAnim, previewAnim |-> previewAnim, preview |-> preview,
     scaleFactor |-> scaleFactor, previewMaxHeight |-> previewMaxHeight,
     previewInteractive |-> previewInteractive, idleTimer |-> idleTimer,
     cursor |-> cursor, ops |-> <<>>, interaction |-> interaction,
     hover |-> hover, snapshot |-> protocol.snapshot, log |-> <<>>]

(***************************************************************************)
(* The camera preview.  A handler's calls on camera_preview and the resize *)
(* events its geometry changes raise are kept, in the order the handler    *)
(* makes them, in the field ops of the widget value; PreviewAfter runs     *)
(* them on the preview when the handler returns.                           *)
(***************************************************************************)
PreviewOp(op, old, new, rect, h) ==
    [op |-> op, old |-> old, new |-> new, rect |-> rect, h |-> h]

\* camera_preview.setGeometry(r)
SetPreviewGeometry(w, r) ==
    [w EXCEPT !.ops = Append(@, PreviewOp("setGeometry", <<0, 0>>, <<0, 0>>, r, 0))]
\* camera_preview.setMaximumHeight(h)
SetPreviewMaximumHeight(w, h) ==
    [w EXCEPT !.ops = Append(@, PreviewOp("setMaximumHeight", <<0, 0>>, <<0, 0>>, NoRect, h))]

\* a widget keeps its height between its minimum and maximum height
ClampPreview(r, maxH) ==
    [r EXCEPT !.h = Min(Max(r.h, PreviewMinHeight), maxH), !.w = Max(r.w, 0)]

\* variant: resizeEvent goes on when the height has not changed
ResizeEventAnyRatio(p, oldSize, newSize, sf, running) ==
    IF running THEN p
    ELSE IF ~SizeIsValid(oldSize) THEN p
    ELSE IF SizeOf(p.rect) = oldSize
         THEN [p EXCEPT !.rect = ClampPreview([@ EXCEPT !.w = newSize[1],
                                                        !.h = newSize[2]], p.maxH)]
    ELSE IF oldSize[2] = 0 THEN p
    ELSE [p EXCEPT !.rect =
            ClampPreview(Reposition(p.rect, oldSize, newSize, sf, p.maxH), p.maxH)]

\* VideoWidget.resizeEvent, lines 1055-1113, on the preview p
\* ([rect, maxH]); running: the preview animation is running
ResizeEvent(p, oldSize, newSize, sf, running) ==
    IF running THEN p
    ELSE IF ~SizeIsValid(oldSize) THEN p
    ELSE IF SizeOf(p.rect) = oldSize
         THEN [p EXCEPT !.rect = ClampPreview([@ EXCEPT !.w = newSize[1],
                                                        !.h = newSize[2]], p.maxH)]
    ELSE IF oldSize[2] = 0 THEN p      \* ZeroDivisionError: the handler ends here
    ELSE IF newSize[2] = oldSize[2] THEN p
    ELSE [p EXCEPT !.rect =
            ClampPreview(Reposition(p.rect, oldSize, newSize, sf, p.maxH), p.maxH)]

RECURSIVE PreviewAfter(_, _, _, _)
PreviewAfter(p, ops, sf, running) ==
    IF ops = <<>> THEN p
    ELSE LET o == Head(ops)
             q == CASE o.op = "resize" -> ResizeEvent(p, o.old, o.new, sf, running)
                    [] o.op = "setGeometry" ->
                          [p EXCEPT !.rect = ClampPreview(o.rect, p.maxH)]
                    [] o.op = "setMaximumHeight" ->
                          [rect |-> ClampPreview(p.rect, o.h), maxH |-> o.h]
         IN  PreviewAfter(q, Tail(ops), sf, running)

\* resizeEvent divides the new height by the old one, line 1069: with an old
\* height of 0 the division raises ZeroDivisionError
Raises(p, oldSize, newSize, running) ==
    /\ ~running
    /\ SizeIsValid(oldSize)
    /\ SizeOf(p.rect) # oldSize
    /\ oldSize[2] = 0

\* whether one of the resize events among ops raises
RECURSIVE RaisedAfter(_, _, _, _)
RaisedAfter(p, ops, sf, running) ==
    IF ops = <<>> THEN FALSE
    ELSE \/ Head(ops).op = "resize"
            /\ Raises(p, Head(ops).old, Head(ops).new, running)
         \/ RaisedAfter(PreviewAfter(p, <<Head(ops)>>, sf, running), Tail(ops),
                        sf, running)

\* self.setGeometry(g): a visible widget whose size changes gets a resize
\* event at once; a hidden one gets it when it is shown, with an invalid old
\* size, which resizeEvent ignores.  A widget's size is never negative.
SetGeometry(w, g) ==
    LET r == [g EXCEPT !.w = Max(g.w, 0), !.h = Max(g.h, 0)]
    IN  [w EXCEPT !.geometry = r,
                  !.ops = IF w.visible /\ SizeOf(r) # SizeOf(w.geometry)
                          THEN Append(@, PreviewOp("resize", SizeOf(w.geometry),
                                                   SizeOf(r), NoRect, 0))
                          ELSE @]

\* the state after a handler that leaves the widget as w
Commit(w) ==
    /\ parent' = w.parent
    /\ geometry' = w.geometry
    /\ visible' = w.visible
    /\ fullScreen' = w.fullScreen
    /\ normalGeometry' = w.normalGeometry
    /\ container' = w.container
    /\ detachChecked' = w.detachChecked
    /\ fullscreenChecked' = w.fullscreenChecked
    /\ active' = w.active
    /\ shown' = w.shown
    /\ detachAnim' = w.detachAnim
    /\ previewAnim' = w.previewAnim
    /\ scaleFactor' = w.scaleFactor
    /\ LET p == PreviewAfter([rect |-> preview, maxH |-> previewMaxHeight], w.ops,
                             scaleFactor, previewAnim.running)
       IN  preview' = p.rect /\ previewMaxHeight' = p.maxH
    /\ previewInteractive' = w.previewInteractive
    /\ idleTimer' = w.idleTimer
    /\ cursor' = w.cursor

\* VideoWidget.geometryHint(parent), p the parent to compute it for
GeometryHintFor(w, p) ==
    IF p = "container"
    THEN Rect(0, 0, w.container[1],
              Min(HeightForWidth(w.container[1]), w.container[2] - ReservedHeight))
    ELSE Rect(w.geometry.x, w.geometry.y, WidthForHeight(w.geometry.h), w.geometry.h)
GeometryHint(w) == GeometryHintFor(w, w.parent)

\* self.rect().translated(self.mapToGlobal(QPoint(0, 0)))
GlobalRect(w) ==
    IF w.parent = "container"
    THEN Translated(w.geometry, ContainerX, ContainerY)
    ELSE w.geometry

(***************************************************************************)
(* showNormal, showFullScreen, setVisible, setParent.  Qt's setParent      *)
(* hides a visible widget through the virtual setVisible(False) before it  *)
(* changes the parent, and leaves the widget hidden.                       *)
(***************************************************************************)
\* variant: leaving fullscreen keeps the geometry of the screen
ShowNormalKeepsGeometry(w) == [w EXCEPT !.fullScreen = FALSE, !.visible = TRUE]

ShowNormal(w) ==
    LET a == [w EXCEPT !.fullScreen = FALSE]
        b == IF w.fullScreen /\ w.parent = "none"
             THEN SetGeometry(a, w.normalGeometry) ELSE a
    IN  [b EXCEPT !.visible = TRUE]

\* variant: showFullScreen() saves and replaces the geometry every time
ShowFullScreenAgain(w) ==
    LET a == SetGeometry([w EXCEPT !.fullScreen = TRUE,
                                   !.normalGeometry = w.geometry], ScreenRect)
    IN  [a EXCEPT !.visible = TRUE]

ShowFullScreen(w) ==
    LET a == IF w.fullScreen THEN w
             ELSE SetGeometry([w EXCEPT !.fullScreen = TRUE,
                                        !.normalGeometry = w.geometry], ScreenRect)
    IN  [a EXCEPT !.visible = TRUE]

Show(w) == [w EXCEPT !.visible = TRUE]

\* setParent as it runs inside setVisible below: showNormal() has left
\* fullscreen mode by then, so the setVisible(False) Qt calls only hides
SetParentNormal(w, p) ==
    LET a == IF p = w.parent THEN w ELSE [w EXCEPT !.parent = p, !.visible = FALSE]
    IN  IF p # "none" THEN SetGeometry(a, GeometryHint(a)) ELSE a

\* variant: setVisible without the exit from fullscreen
SetVisibleOnly(w, v) == [w EXCEPT !.visible = v]

\* VideoWidget.setVisible, lines 1124-1131
SetVisible(w, v) ==
    IF ~v /\ w.fullScreen
    THEN LET a == ShowNormal(w)
             b == IF ~a.detachChecked
                  THEN LET c == SetParentNormal(a, "container")
                       IN  SetGeometry(c, RectOfSize(c.container))
                  ELSE a
         IN  [b EXCEPT !.fullscreenChecked = FALSE, !.visible = FALSE]
    ELSE [w EXCEPT !.visible = v]

\* VideoWidget.setParent, lines 1115-1122
SetParent(w, p) ==
    LET a == IF p = w.parent THEN w
             ELSE LET h == IF w.visible THEN SetVisible(w, FALSE) ELSE w
                  IN  [h EXCEPT !.parent = p, !.visible = FALSE]
    IN  IF p # "none" THEN SetGeometry(a, GeometryHint(a)) ELSE a

(***************************************************************************)
(* The snapshot against flicker.  A handler's calls on the overlay and on  *)
(* no_flicker_widget around a change of parent are kept in the field log   *)
(* of the widget value, each with the rectangle it was given and with      *)
(* whether the snapshot was visible when it was made.                      *)
(***************************************************************************)
Logged(w, call, r) ==
    [w EXCEPT !.log = Append(@, [call |-> call, rect |-> r, snapshot |-> w.snapshot])]

\* pixmap = self.grab(), with the rectangle of the overlay on the screen
Grab(w, r) == Logged(w, "grab", r)

\* variant: the snapshot is given its pixmap and rectangle and is not shown
ShowSnapshotNot(w, r) == Logged(w, "snapshot_show", r)

\* no_flicker_widget.setPixmap, setGeometry(r), show, raise_
ShowSnapshot(w, r) == Logged([w EXCEPT !.snapshot = TRUE], "snapshot_show", r)

\* no_flicker_widget.hide()
HideSnapshot(w) == Logged([w EXCEPT !.snapshot = FALSE], "snapshot_hide", NoRect)

(***************************************************************************)
(* Tool buttons.  Setting 'active' to a new value shows or hides the       *)
(* button (VideoToolButton.event); setting it to its value does nothing.   *)
(***************************************************************************)
SetActive(w, b, v) ==
    IF v = (b \in w.active) THEN w
    ELSE IF v THEN [w EXCEPT !.active = @ \cup {b}, !.shown = @ \cup {b}]
    ELSE [w EXCEPT !.active = @ \ {b}, !.shown = @ \ {b}]

\* variant: the mute, hold and close buttons stay as they are
SetCallControlsActiveNot(w, v) == w

SetCallControlsActive(w, v) ==
    SetActive(SetActive(SetActive(w, "mute", v), "hold", v), "close", v)

(***************************************************************************)
(* QPropertyAnimation on the geometry.  An animation keeps its current     *)
(* time; its value at that time is the interpolation of its start and end  *)
(* value at the eased progress, each coordinate cut to a whole number.     *)
(* While it runs, every change of its easing curve, start or end value     *)
(* writes the value to the property again; start() on a running animation  *)
(* does nothing, and start() on a stopped one rewinds it.                  *)
(***************************************************************************)
\* the eased progress at tick t of steps, as a fraction
Ease(easing, t, steps) ==
    CASE easing = "OutQuad" -> <<t * (2 * steps - t), steps * steps>>
      [] easing = "InQuad" -> <<t * t, steps * steps>>
      [] OTHER -> <<t, steps>>

Interpolate(f, t, p) == TruncDiv(f * p[2] + (t - f) * p[1], p[2])

InterpolateRect(f, t, p) ==
    LET l == Interpolate(Left(f), Left(t), p)
        u == Interpolate(Top(f), Top(t), p)
        r == Interpolate(Right(f), Right(t), p)
        b == Interpolate(Bottom(f), Bottom(t), p)
    IN  Rect(l, u, r - l + 1, b - u + 1)

AnimValue(a, steps) ==
    InterpolateRect(a.startValue, a.endValue, Ease(a.easing, a.time, steps))

\* the running detach animation writes its current value to the geometry
DetachAnimUpdate(w) ==
    IF w.detachAnim.running /\ w.detachAnim.startValue # NoRect
                            /\ w.detachAnim.endValue # NoRect
    THEN SetGeometry(w, AnimValue(w.detachAnim, DetachSteps))
    ELSE w

SetDirection(w, d) ==
    IF w.detachAnim.direction = d THEN w
    ELSE IF w.detachAnim.running THEN [w EXCEPT !.detachAnim.direction = d]
    ELSE [w EXCEPT !.detachAnim.direction = d,
                   !.detachAnim.time = IF d = "Backward" THEN DetachSteps ELSE 0]
SetEasingCurve(w, e) == DetachAnimUpdate([w EXCEPT !.detachAnim.easing = e])
\* variant: the start value of the animation is never replaced
SetStartValueKept(w, r) == w
SetStartValue(w, r) == DetachAnimUpdate([w EXCEPT !.detachAnim.startValue = r])
SetEndValue(w, r) == DetachAnimUpdate([w EXCEPT !.detachAnim.endValue = r])
StartDetachAnimation(w) ==
    IF w.detachAnim.running THEN w
    ELSE DetachAnimUpdate(
            [w EXCEPT !.detachAnim.running = TRUE,
                      !.detachAnim.time =
                          IF w.detachAnim.direction = "Backward" THEN DetachSteps ELSE 0])

\* variant: the rectangle in the top left corner of the screen
CornerRectTopLeft ==
    Rect(ScreenRect.x + CornerInset, ScreenRect.y + CornerInset,
         WidthForHeight(DetachedHeight), DetachedHeight)

\* the rectangle in the top right corner of the screen a detached overlay
\* is animated to (lines 1310-1312)
CornerRect ==
    LET fw == WidthForHeight(DetachedHeight)
    IN  Rect(ScreenRect.x + ScreenW - 1 - (fw - 1) - CornerInset,
             ScreenRect.y + CornerInset, fw, DetachedHeight)

(***************************************************************************)
(* The signal handlers.                                                    *)
(***************************************************************************)
\* variant: the overlay goes to fullscreen mode and back under the parent it has
FullscreenButtonClickedParented(w, checked) ==
    IF checked
    THEN LET b == SetCallControlsActive(SetActive(w, "detach", FALSE), TRUE)
             c == ShowFullScreen(b)
         IN  [c EXCEPT !.shown = @ \cup {"fullscreen"}, !.cursor = "Arrow"]
    ELSE LET a == IF ~w.detachChecked THEN SetCallControlsActive(w, FALSE) ELSE w
             b == ShowNormal(SetActive(a, "detach", TRUE))
         IN  [b EXCEPT !.cursor = "Arrow"]

\* _SH_FullscreenButtonClicked(checked), lines 1274-1299
FullscreenButtonClicked(w, checked) ==
    IF checked
    THEN LET a == IF ~w.detachChecked
                  THEN LET g == GlobalRect(w)
                       IN  Show(SetGeometry(SetParent(w, "none"), g))
                  ELSE w
             b == SetCallControlsActive(SetActive(a, "detach", FALSE), TRUE)
             c == ShowFullScreen(b)
         IN  [c EXCEPT !.shown = @ \cup {"fullscreen"}, !.cursor = "Arrow"]
    ELSE LET a == IF ~w.detachChecked
                  THEN LET g1 == SetGeometry(w, GeometryHintFor(w, "container"))
                           g2 == SetParent(g1, "container")
                           g3 == SetGeometry(g2, GeometryHint(g2))
                       IN  SetCallControlsActive(g3, FALSE)
                  ELSE w
             b == ShowNormal(SetActive(a, "detach", TRUE))
         IN  [b EXCEPT !.cursor = "Arrow"]

\* _SH_DetachButtonClicked(checked), lines 1301-1343
DetachButtonClicked(w, checked) ==
    LET done ==
        IF checked
        THEN LET a == IF w.fullScreen THEN ShowNormal(w) ELSE w
                 startGeometry == GlobalRect(a)
                 s1 == ShowSnapshot(Grab(a, GlobalRect(a)), GlobalRect(a))
                 s2 == Logged(SetParent(s1, "none"), "set_parent", NoRect)
                 s3 == Logged(SetGeometry(s2, startGeometry), "set_geometry",
                              startGeometry)
                 b == HideSnapshot(Logged(Show(s3), "show", NoRect))
                 c == SetEasingCurve(SetDirection(b, "Forward"), "OutQuad")
                 d == SetEndValue(SetStartValue(c, startGeometry), CornerRect)
             IN  StartDetachAnimation(d)
        ELSE LET startGeometry == w.geometry
                 finalGeometry == Translated(GeometryHintFor(w, "container"),
                                             ContainerX, ContainerY)
                 c == SetEasingCurve(SetDirection(w, "Backward"), "InQuad")
                 d == SetEndValue(SetStartValue(c, finalGeometry), startGeometry)
             IN  StartDetachAnimation(d)
    IN  [done EXCEPT !.fullscreenChecked = FALSE]

\* variant: the end of the attach animation leaves the overlay a window
DetachAnimationFinishedKeepsWindow(w) ==
    LET a == IF w.detachAnim.direction = "Backward"
             THEN SetCallControlsActive(w, FALSE)
             ELSE SetCallControlsActive([w EXCEPT !.shown = @ \cup {"detach"}], TRUE)
    IN  [a EXCEPT !.cursor = "Arrow"]

\* variant: the end of the attach animation docks the overlay at the
\* rectangle the animation was given when it was requested
DetachAnimationFinishedAtTarget(w) ==
    LET a == IF w.detachAnim.direction = "Backward"
             THEN LET b == SetParent(w, "container")
                      c == Show(SetGeometry(b, Translated(w.detachAnim.startValue,
                                                          -ContainerX, -ContainerY)))
                  IN  SetCallControlsActive(c, FALSE)
             ELSE SetCallControlsActive([w EXCEPT !.shown = @ \cup {"detach"}], TRUE)
    IN  [a EXCEPT !.cursor = "Arrow"]

\* _SH_DetachAnimationFinished, lines 1375-1401
DetachAnimationFinished(w) ==
    LET a == IF w.detachAnim.direction = "Backward"
             THEN LET s1 == ShowSnapshot(Grab(w, GlobalRect(w)), w.geometry)
                      b == Logged(SetParent(s1, "container"), "set_parent", NoRect)
                      s3 == Logged(SetGeometry(b, GeometryHint(b)), "set_geometry",
                                   GeometryHint(b))
                      c == HideSnapshot(Logged(Show(s3), "show", NoRect))
                  IN  SetCallControlsActive(c, FALSE)
             ELSE SetCallControlsActive([w EXCEPT !.shown = @ \cup {"detach"}], TRUE)
    IN  [a EXCEPT !.cursor = "Arrow"]

\* _SH_PreviewAnimationFinished, lines 1403-1410
PreviewAnimationFinished(w) ==
    LET a == SetPreviewMaximumHeight(w, PreviewMaxHeight)
        b == [a EXCEPT !.previewInteractive = TRUE, !.cursor = "Arrow"]
        c == SetActive(SetActive(SetActive(b, "detach", TRUE), "fullscreen", TRUE),
                       "screenshot", TRUE)
    IN  [c EXCEPT !.idleTimer = TRUE]

\* a timeout that hides the tool buttons and leaves the cursor as it is
IdleTimerTimeoutKeepsCursor(w) ==
    [w EXCEPT !.shown = @ \ w.active, !.idleTimer = FALSE]

\* _SH_IdleTimerTimeout, lines 1269-1272
IdleTimerTimeout(w) ==
    [w EXCEPT !.shown = @ \ w.active, !.cursor = "Blank", !.idleTimer = FALSE]

\* mouseMoveEvent, lines 1045-1053
MouseMoveEvent(w) ==
    IF w.interaction
    THEN w
    ELSE LET a == IF ~w.idleTimer
                  THEN [w EXCEPT !.shown = @ \cup w.active, !.cursor = "Arrow"]
                  ELSE w
         IN  [a EXCEPT !.idleTimer = TRUE]

\* VideoWidget.interactive, lines 1001-1003
Interactive(w) == w.parent = "none" /\ ~w.fullScreen

\* mousePressEvent, lines 1031-1036: the surface starts an interaction when it
\* is interactive
MousePressEvent(w) ==
    LET a == [w EXCEPT !.interaction = Interactive(w)]
    IN  IF a.interaction
        THEN [a EXCEPT !.shown = @ \cup a.active, !.idleTimer = FALSE]
        ELSE a

\* mouseReleaseEvent, lines 1038-1043: the surface ends the interaction last
MouseReleaseEvent(w) ==
    LET a == IF w.interaction
             THEN [w EXCEPT !.shown = @ \cup w.active, !.idleTimer = TRUE]
             ELSE w
    IN  [a EXCEPT !.interaction = FALSE]

\* eventFilter for an Enter event of a tool button, lines 1018-1026
ButtonEntered(w, button) == [w EXCEPT !.idleTimer = FALSE, !.hover = button]

\* eventFilter for a Leave event of a tool button, lines 1027-1028
ButtonLeft(w) == [w EXCEPT !.idleTimer = TRUE, !.hover = "none"]

(***************************************************************************)
(* The notification handlers.                                              *)
(***************************************************************************)
AllInactive(w) == [w EXCEPT !.active = {}, !.shown = @ \ w.active]

\* variant: the reset leaves the tool buttons as they are
ResetPreviewKeepsButtons(w) ==
    LET b == SetPreviewGeometry(SetPreviewMaximumHeight(w, WidgetSizeMax),
                                RectOfSize(SizeOf(w.geometry)))
    IN  Show([b EXCEPT !.previewInteractive = FALSE, !.scaleFactor = <<1, 1>>,
                       !.cursor = "Arrow"])

\* the part the three handlers below share, e.g. lines 1152-1162
ResetPreview(w) ==
    LET a == AllInactive(w)
        b == SetPreviewGeometry(SetPreviewMaximumHeight(a, WidgetSizeMax),
                                RectOfSize(SizeOf(a.geometry)))
    IN  Show([b EXCEPT !.previewInteractive = FALSE, !.scaleFactor = <<1, 1>>,
                       !.cursor = "Arrow"])

\* _NH_BlinkSessionWillConnect and _NH_BlinkSessionWillAddStream, with video
SessionWillAddVideo(w) ==
    LET a == SetParent(w, "container")
        b == SetGeometry(a, GeometryHint(a))
    IN  ResetPreview([b EXCEPT !.detachChecked = FALSE])

\* _NH_BlinkSessionDidConnect with a video stream, lines 1166-1181
SessionDidConnectVideo(w) ==
    LET a == IF w.parent = "none"
             THEN LET b == SetParent(w, "container")
                      c == SetGeometry(b, GeometryHint(b))
                  IN  [c EXCEPT !.detachChecked = FALSE]
             ELSE w
    IN  ResetPreview(a)

\* self.hide() of the handlers that end the video, e.g. lines 1209-1215
HideVideo(w) == SetVisible(w, FALSE)

(***************************************************************************)
(* VideoScreenshot.  The names filename_generator yields for a base name   *)
(* are name.png, name-1.png, name-2.png, ...; they are numbered 0, 1, 2,   *)
(* ... here.                                                               *)
(***************************************************************************)
\* variant: the first name of the sequence, whether the file exists or not
FirstName(existing) == 0

\* VideoScreenshot.save, line 2640: the first name of the sequence for which
\* os.path.exists is false
RECURSIVE FirstFreeFrom(_, _)
FirstFreeFrom(existing, k) ==
    IF k \notin existing THEN k ELSE FirstFreeFrom(existing, k + 1)

FirstFree(existing) == FirstFreeFrom(existing, 0)

\* variant: the overlay stays as it is when the stream is not added
SessionDidNotAddVideoShown(w) == w

\* _NH_BlinkSessionDidNotAddStream for a video stream, lines 1209-1215
SessionDidNotAddVideo(w) == SetVisible(w, FALSE)

\* variant: the deletion of the session leaves the animations as they are
SessionWasDeletedKeepsAnimations(w) == SetParent(w, "none")

\* _NH_BlinkSessionWasDeleted, lines 1232-1239: the last references to the
\* animations go, and an animation that runs is destroyed as it is
SessionWasDeletedHandler(w) ==
    LET a == SetParent(w, "none")
    IN  [a EXCEPT !.detachAnim.running = FALSE, !.previewAnim.running = FALSE]

\* _NH_VideoStreamRemoteFormatDidChange, lines 1244-1246
RemoteFormatDidChange(w) ==
    IF ~w.fullScreen THEN SetGeometry(w, GeometryHint(w)) ELSE w

\* _NH_VideoStreamReceivedKeyFrame, lines 1248-1253
ReceivedKeyFrame(w) ==
    IF ~w.previewAnim.running /\ SizeOf(w.preview) = SizeOf(w.geometry)
    THEN LET a == [w EXCEPT !.previewAnim =
                     [running |-> TRUE, time |-> 0,
                      startValue |-> RectOfSize(SizeOf(w.geometry)),
                      endValue |-> Rect(0, 0, WidthForHeight(PreviewInitHeight),
                                        PreviewInitHeight)]]
         IN  SetPreviewGeometry(a, a.previewAnim.startValue)
    ELSE w

\* variant: the scale factor stays as it is when the user resizes the preview
CameraPreviewAdjustedKept(w, old, new) == w

\* _SH_CameraPreviewAdjusted(old_geometry, new_geometry), lines 1264-1267:
\* new height / ((height + 117) / 6) as a fraction
CameraPreviewAdjusted(w, old, new) ==
    IF SizeOf(new) # SizeOf(old)
    THEN [w EXCEPT !.scaleFactor = <<HeightDivisor * new.h, w.geometry.h + HeightOffset>>]
    ELSE w

\* the user drags or resizes the preview to new, then the preview emits
\* adjusted(old, new)
PreviewAdjusted(w, old, new) ==
    CameraPreviewAdjusted(SetPreviewGeometry(w, new), old, new)

\* variant: the overlay does not listen to its container
ContainerResizedUnheard(w, size) == [w EXCEPT !.container = size]

\* eventFilter for a resize of the parent, lines 1015-1017
ContainerResized(w, size) ==
    LET a == [w EXCEPT !.container = size]
    IN  IF a.parent = "container" THEN SetGeometry(a, GeometryHint(a)) ELSE a

(***************************************************************************)
(* Placement: the state of the overlay as the handlers read it.            *)
(***************************************************************************)
Placement(w) ==
    IF w.fullScreen THEN "Fullscreen"
    ELSE IF w.detachChecked THEN "Detached"
    ELSE "Docked"

\* no overlay or preview animation is running
Quiescent(w) == ~w.detachAnim.running /\ ~w.previewAnim.running

(***************************************************************************)
(* History.  last names the handler that ran last.  track follows a        *)
(* sequence of transitions that nothing but pointer moves and idle         *)
(* timeouts interrupts; place and geom are the placement and the geometry  *)
(* the sequence started from:                                              *)
(*   detaching, detached, attaching, roundtrip: a detach from a quiescent  *)
(*     docked overlay run to completion, then the attach after it;         *)
(*   redetaching, redetached: a detach requested while an attach animation *)
(*     is in flight, run to completion;                                    *)
(*   fs_entered, fs_exited: an entry into fullscreen, then the exit;       *)
(*   hidden_fs: the overlay was hidden while fullscreen.                   *)
(* laidOut: the sequence started with the preview in its place and the     *)
(* overlay at the geometry its container gives it.                         *)
(***************************************************************************)
NoTrack == [phase |-> "none", place |-> "none", geom |-> NoRect, laidOut |-> FALSE]
HideOps == {"did_connect", "did_remove_stream", "did_end"}

NextTrack(op, w) ==
    CASE op \in {"mouse_move", "idle_timeout"} -> track
      [] op = "detach_click" ->
            IF Quiescent(Cur) /\ Placement(Cur) = "Docked" /\ parent = "container"
            THEN [phase |-> "detaching", place |-> "Docked", geom |-> geometry,
                  laidOut |-> previewInteractive /\ geometry = GeometryHint(Cur)]
            ELSE IF detachAnim.running /\ detachAnim.direction = "Backward"
                    /\ parent = "none" /\ ~fullScreen
            THEN [phase |-> "redetaching", place |-> "Docked", geom |-> geometry,
                  laidOut |-> FALSE]
            ELSE NoTrack
      [] op = "detach_tick" ->
            IF track.phase \in {"detaching", "attaching", "redetaching"}
            THEN track ELSE NoTrack
      [] op = "detach_finished" ->
            IF track.phase = "detaching" THEN [track EXCEPT !.phase = "detached"]
            ELSE IF track.phase = "attaching" THEN [track EXCEPT !.phase = "roundtrip"]
            ELSE IF track.phase = "redetaching" THEN [track EXCEPT !.phase = "redetached"]
            ELSE NoTrack
      [] op = "attach_click" ->
            IF track.phase = "detached" THEN [track EXCEPT !.phase = "attaching"]
            ELSE NoTrack
      [] op = "fullscreen_enter" ->
            [phase |-> "fs_entered", place |-> Placement(Cur), geom |-> geometry,
             laidOut |-> FALSE]
      [] op = "fullscreen_exit" ->
            IF track.phase = "fs_entered" THEN [track EXCEPT !.phase = "fs_exited"]
            ELSE NoTrack
      [] op \in HideOps ->
            IF fullScreen /\ ~w.visible
            THEN [phase |-> "hidden_fs",
                  place |-> IF detachChecked THEN "Detached" ELSE "Docked",
                  geom |-> geometry, laidOut |-> FALSE]
            ELSE NoTrack
      [] OTHER -> NoTrack

\* timer events and pointer moves leave the count of events alone
Uncounted == {"detach_tick", "detach_finished", "preview_tick", "preview_finished",
              "idle_timeout", "mouse_move", "mouse_press", "mouse_release",
              "button_enter", "button_leave", "preview_press",
              "screenshot_click"}

\* the count of animation legs: those started by a click or a key frame,
\* the finished signals, the legs a new request has replaced while they ran,
\* and the legs that ran when the animations were dropped
NoLegs == [started |-> 0, fired |-> 0, superseded |-> 0, dropped |-> 0]

Handle(op, w) ==
    /\ Commit(w)
    /\ IF op \in Uncounted
       THEN events' = events
       ELSE events < MaxEvents /\ events' = events + 1
    /\ last' = op
    /\ track' = NextTrack(op, w)

\* a handler of the widget: it leaves the screenshots directory alone
Advance(op, w) ==
    /\ Handle(op, w)
    /\ UNCHANGED <<files, queued, saved, fault, frames, chatInput>>

\* a handler that runs with the pointer where it was and no observer attached
Step(op, w) ==
    /\ Advance(op, w)
    /\ UNCHANGED <<interaction, hover, previewDrag, legs, protocol, raised>>

\* the overlay and the camera preview as they are constructed: no producer is
\* attached and no image is cached
NoFrames == [producer |-> FALSE, image |-> FALSE,
             previewProducer |-> FALSE, previewImage |-> FALSE]

\* A document of the chat input is the sequence of the texts of its blocks;
\* the empty document has one empty block (characterCount() = 1).  toHtml()
\* wraps the document into a value of another kind, which setHtml() unwraps.
EmptyDocument == <<"">>
ToHtml(document) == [html |-> document]
FromHtml(text) == text.html

\* ChatTextInput.__init__, lines 425-435: the lock widget is hidden, the lock
\* queue and the history are empty, the index is 0 and stashed_content is
\* None (the empty sequence); the input is empty.  History: the handler that
\* ran last, the signals it emitted, whether it raised, and the document
\* that was in the input when the navigation left index 0
NewChatTextInput ==
    [lock_queue |-> <<>>, readOnly |-> FALSE, lockShown |-> FALSE,
     history |-> <<>>, history_index |-> 0, stashed_content |-> <<>>,
     text |-> EmptyDocument,
     call |-> [name |-> "init", arg |-> "None"], emitted |-> <<>>,
     entered |-> <<>>, error |-> FALSE, typed |-> EmptyDocument]

(***************************************************************************)
(* Initial state: VideoWidget.__init__ and setupUi, for a session without  *)
(* a video stream yet.                                                     *)
(***************************************************************************)
StoppedDetachAnim ==
    [running |-> FALSE, direction |-> "Forward", time |-> 0,
     startValue |-> NoRect, endValue |-> NoRect, easing |-> "Linear"]
StoppedPreviewAnim ==
    [running |-> FALSE, time |-> 0, startValue |-> NoRect, endValue |-> NoRect]

\* variant: the constructor leaves the overlay hidden
ConstructedHidden(hasVideo) == FALSE

\* __init__, line 907: setVisible('video' in session_item.blink_session.streams)
ConstructedVisible(hasVideo) == hasVideo

\* the state after __init__ (lines 888-915) for a session that has a video
\* stream already (hasVideo) or has none yet
Constructed(hasVideo) ==
    /\ container \in ContainerSizes
    /\ parent = "container"
    /\ geometry = Rect(0, 0, container[1],
                       Min(HeightForWidth(container[1]), container[2] - ReservedHeight))
    /\ visible = ConstructedVisible(hasVideo)
    /\ fullScreen = FALSE
    /\ normalGeometry = NoRect
    /\ detachChecked = FALSE
    /\ fullscreenChecked = FALSE
    /\ active = {}
    /\ shown = {}
    /\ detachAnim = StoppedDetachAnim
    /\ previewAnim = StoppedPreviewAnim
    /\ preview = Rect(0, 0, WidthForHeight(PreviewInitHeight), PreviewInitHeight)
    /\ scaleFactor = <<1, 1>>
    /\ previewMaxHeight = PreviewMaxHeight
    /\ previewInteractive = TRUE
    /\ idleTimer = FALSE
    /\ cursor = "Arrow"
    /\ session = "idle"
    /\ video = hasVideo
    /\ events = 0
    /\ last = "init"
    /\ track = NoTrack
    /\ interaction = FALSE
    /\ hover = "none"
    /\ previewDrag = FALSE
    /\ legs = NoLegs
    /\ protocol = [snapshot |-> FALSE, calls |-> <<>>]
    /\ raised = FALSE
    /\ files = [name \in ShotNames |-> {}]
    /\ queued = 0
    /\ saved = <<>>
    /\ fault = "none"
    /\ frames = NoFrames
    /\ chatInput = NewChatTextInput

\* the overlay of a session that has no video stream yet
Init == Constructed(FALSE)

\* the overlay of any session
InitConstructed == \E hasVideo \in BOOLEAN : Constructed(hasVideo)

(***************************************************************************)
(* Actions: one per event the widget handles.                              *)
(***************************************************************************)
\* a click on the fullscreen button: the button toggles, then the handler runs
FullscreenClick ==
    /\ visible /\ "fullscreen" \in shown
    /\ LET checked == ~fullscreenChecked
       IN  Step(IF checked THEN "fullscreen_enter" ELSE "fullscreen_exit",
                FullscreenButtonClicked([Cur EXCEPT !.fullscreenChecked = checked],
                                        checked))
    /\ UNCHANGED <<session, video>>

\* a click on the detach button
DetachClick ==
    /\ visible /\ "detach" \in shown
    /\ LET checked == ~detachChecked
       IN  Step(IF checked THEN "detach_click" ELSE "attach_click",
                DetachButtonClicked([Cur EXCEPT !.detachChecked = checked], checked))
    /\ UNCHANGED <<session, video>>

\* a timer tick of the running detach animation; the last one stops it and
\* emits finished
DetachAnimationTick ==
    /\ detachAnim.running
    /\ LET t == IF detachAnim.direction = "Forward"
                THEN Min(detachAnim.time + 1, DetachSteps)
                ELSE Max(detachAnim.time - 1, 0)
           atEnd == t = (IF detachAnim.direction = "Forward" THEN DetachSteps ELSE 0)
           a == DetachAnimUpdate([Cur EXCEPT !.detachAnim.time = t])
       IN  IF atEnd
           THEN Step("detach_finished",
                     DetachAnimationFinished([a EXCEPT !.detachAnim.running = FALSE]))
           ELSE Step("detach_tick", a)
    /\ UNCHANGED <<session, video>>

\* a timer tick of the running preview animation
PreviewAnimationTick ==
    /\ previewAnim.running
    /\ LET t == previewAnim.time + 1
           v == InterpolateRect(previewAnim.startValue, previewAnim.endValue,
                                Ease("OutQuad", t, PreviewSteps))
           a == SetPreviewGeometry([Cur EXCEPT !.previewAnim.time = t], v)
       IN  IF t = PreviewSteps
           THEN Step("preview_finished",
                     PreviewAnimationFinished([a EXCEPT !.previewAnim.running = FALSE]))
           ELSE Step("preview_tick", a)
    /\ UNCHANGED <<session, video>>

IdleTimeout ==
    /\ idleTimer
    /\ Step("idle_timeout", IdleTimerTimeout(Cur))
    /\ UNCHANGED <<session, video>>

MouseMove ==
    /\ visible
    /\ Step("mouse_move", MouseMoveEvent(Cur))
    /\ UNCHANGED <<session, video>>

ContainerResize ==
    /\ \E size \in ContainerSizes \ {container} :
          Step("container_resize", ContainerResized(Cur, size))
    /\ UNCHANGED <<session, video>>

SessionWillConnect ==
    /\ session = "idle"
    /\ session' = "connecting"
    /\ \E v \in BOOLEAN :
          /\ video' = v
          /\ Step("will_connect", IF v THEN SessionWillAddVideo(Cur) ELSE Cur)

SessionDidConnect ==
    /\ session = "connecting"
    /\ session' = "connected"
    /\ Step("did_connect", IF video THEN SessionDidConnectVideo(Cur) ELSE HideVideo(Cur))
    /\ UNCHANGED video

SessionWillAddStream ==
    /\ session = "connected" /\ ~video
    /\ video' = TRUE
    /\ Step("will_add_stream", SessionWillAddVideo(Cur))
    /\ UNCHANGED session

\* _NH_BlinkSessionDidNotAddStream and _NH_BlinkSessionDidRemoveStream
SessionDidRemoveStream ==
    /\ session = "connected" /\ video
    /\ video' = FALSE
    /\ Step("did_remove_stream", HideVideo(Cur))
    /\ UNCHANGED session

SessionDidEnd ==
    /\ session \notin {"idle", "deleted"}
    /\ session' = "idle"
    /\ video' = FALSE
    /\ Step("did_end", HideVideo(Cur))

KeyFrame ==
    /\ session = "connected" /\ video
    /\ Step("key_frame", ReceivedKeyFrame(Cur))
    /\ UNCHANGED <<session, video>>

RemoteFormatChange ==
    /\ session = "connected" /\ video
    /\ Step("remote_format", RemoteFormatDidChange(Cur))
    /\ UNCHANGED <<session, video>>

\* the user moves the preview to one of nine places in the overlay, with one
\* of the heights of PreviewHeights, the whole of it inside the overlay
PreviewAdjust ==
    /\ visible /\ previewInteractive /\ ~previewAnim.running
    /\ \E h \in PreviewHeights \cup {preview.h}, col \in 0..2, row \in 0..2 :
          LET pw == WidthForHeight(h)
              new == Rect((col * (geometry.w - pw)) \div 2,
                          (row * (geometry.h - h)) \div 2, pw, h)
          IN  /\ h >= PreviewMinHeight /\ h <= previewMaxHeight
              /\ pw <= geometry.w /\ h <= geometry.h
              /\ new # preview
              /\ Step("preview_adjust", PreviewAdjusted(Cur, preview, new))
    /\ UNCHANGED <<session, video>>

\* the container of the overlay takes one of the sizes of a window the user
\* resizes by hand
ContainerResizeByHand ==
    /\ \E size \in HandSizes \ {container} :
          Step("container_resize", ContainerResized(Cur, size))
    /\ UNCHANGED <<session, video>>

\* a handler that runs on a pointer event: it leaves the pointer state it
\* computed
PointerStep(op, w) ==
    /\ Advance(op, w)
    /\ interaction' = w.interaction
    /\ hover' = w.hover
    /\ UNCHANGED <<previewDrag, legs, protocol, raised>>

\* a press of the left mouse button on the overlay, off its tool buttons
MousePress ==
    /\ visible /\ hover = "none" /\ ~interaction
    /\ PointerStep("mouse_press", MousePressEvent(Cur))
    /\ UNCHANGED <<session, video>>

\* the release that ends a drag of the overlay
MouseRelease ==
    /\ interaction
    /\ PointerStep("mouse_release", MouseReleaseEvent(Cur))
    /\ UNCHANGED <<session, video>>

\* the pointer comes over a tool button; no widget but the one that was
\* pressed gets Enter events while the mouse button is down
ButtonEnter ==
    /\ visible /\ hover = "none" /\ ~interaction
    /\ \E button \in shown : PointerStep("button_enter", ButtonEntered(Cur, button))
    /\ UNCHANGED <<session, video>>

\* the pointer leaves the tool button it was over
ButtonLeave ==
    /\ hover # "none"
    /\ PointerStep("button_leave", ButtonLeft(Cur))
    /\ UNCHANGED <<session, video>>

\* a move of the pointer over the overlay, off its tool buttons
PointerMove ==
    /\ hover = "none"
    /\ MouseMove

\* the user presses the mouse button on the preview to move or resize it
PreviewPress ==
    /\ visible /\ previewInteractive /\ ~previewAnim.running /\ ~previewDrag
    /\ Advance("preview_press", Cur)
    /\ previewDrag' = TRUE
    /\ UNCHANGED <<session, video, interaction, hover, legs, protocol, raised>>

\* the user releases the mouse button: the preview is at one of nine places
\* in the overlay, with one of the heights of PreviewHeights
PreviewRelease ==
    /\ previewDrag
    /\ \E h \in PreviewHeights \cup {preview.h}, col \in 0..2, row \in 0..2 :
          LET pw == WidthForHeight(h)
              new == Rect((col * (geometry.w - pw)) \div 2,
                          (row * (geometry.h - h)) \div 2, pw, h)
          IN  /\ h >= PreviewMinHeight /\ h <= previewMaxHeight
              /\ pw <= geometry.w /\ h <= geometry.h
              /\ Advance("preview_adjust", PreviewAdjusted(Cur, preview, new))
    /\ previewDrag' = FALSE
    /\ UNCHANGED <<session, video, interaction, hover, legs, protocol, raised>>

\* a handler that runs with the legs of the animations counted and its calls
\* on the windows kept
LegStep(op, w) ==
    /\ Advance(op, w)
    /\ legs' =
          [started |-> legs.started +
              (IF \/ op \in {"detach_click", "attach_click"}
                  \/ op = "key_frame" /\ w.previewAnim.running /\ ~previewAnim.running
               THEN 1 ELSE 0),
           fired |-> legs.fired +
              (IF op \in {"detach_finished", "preview_finished"} THEN 1 ELSE 0),
           superseded |-> legs.superseded +
              (IF op \in {"detach_click", "attach_click"} /\ detachAnim.running
               THEN 1 ELSE 0),
           dropped |-> legs.dropped +
              (IF op = "was_deleted"
               THEN (IF detachAnim.running THEN 1 ELSE 0) +
                    (IF previewAnim.running THEN 1 ELSE 0)
               ELSE 0)]
    /\ protocol' = [snapshot |-> w.snapshot, calls |-> w.log]
    /\ UNCHANGED <<interaction, hover, previewDrag, raised>>

\* a click on the detach button, counted
LegDetachClick ==
    /\ session # "deleted"
    /\ visible /\ "detach" \in shown
    /\ LET checked == ~detachChecked
       IN  LegStep(IF checked THEN "detach_click" ELSE "attach_click",
                   DetachButtonClicked([Cur EXCEPT !.detachChecked = checked], checked))
    /\ UNCHANGED <<session, video>>

\* a timer tick of the running detach animation, counted
LegDetachTick ==
    /\ detachAnim.running
    /\ LET t == IF detachAnim.direction = "Forward"
                THEN Min(detachAnim.time + 1, DetachSteps)
                ELSE Max(detachAnim.time - 1, 0)
           atEnd == t = (IF detachAnim.direction = "Forward" THEN DetachSteps ELSE 0)
           a == DetachAnimUpdate([Cur EXCEPT !.detachAnim.time = t])
       IN  IF atEnd
           THEN LegStep("detach_finished",
                        DetachAnimationFinished([a EXCEPT !.detachAnim.running = FALSE]))
           ELSE LegStep("detach_tick", a)
    /\ UNCHANGED <<session, video>>

\* a key frame, counted
LegKeyFrame ==
    /\ session = "connected" /\ video
    /\ LegStep("key_frame", ReceivedKeyFrame(Cur))
    /\ UNCHANGED <<session, video>>

\* a timer tick of the running preview animation, counted
LegPreviewTick ==
    /\ previewAnim.running
    /\ LET t == previewAnim.time + 1
           v == InterpolateRect(previewAnim.startValue, previewAnim.endValue,
                                Ease("OutQuad", t, PreviewSteps))
           a == SetPreviewGeometry([Cur EXCEPT !.previewAnim.time = t], v)
       IN  IF t = PreviewSteps
           THEN LegStep("preview_finished",
                        PreviewAnimationFinished([a EXCEPT !.previewAnim.running = FALSE]))
           ELSE LegStep("preview_tick", a)
    /\ UNCHANGED <<session, video>>

\* the session is deleted: the widget is torn down
SessionWasDeleted ==
    /\ session # "deleted"
    /\ session' = "deleted"
    /\ video' = FALSE
    /\ LegStep("was_deleted", SessionWasDeletedHandler(Cur))

\* the window of the container is made small, down to nothing
ContainerShrink ==
    /\ \E size \in (ContainerSizes \cup SmallSizes) \ {container} :
          LET w == ContainerResized(Cur, size)
          IN  /\ Advance("container_resize", w)
              /\ raised' = RaisedAfter([rect |-> preview, maxH |-> previewMaxHeight],
                                       w.ops, scaleFactor, previewAnim.running)
    /\ UNCHANGED <<session, video, interaction, hover, previewDrag, legs, protocol>>

\* the video stream that was to be added is not added
SessionDidNotAddStream ==
    /\ session = "connected" /\ video
    /\ video' = FALSE
    /\ Step("did_not_add_stream", SessionDidNotAddVideo(Cur))
    /\ UNCHANGED session

\* a click on the screenshot button, lines 1345-1348: capture copies the
\* image of the surface if there is one, and save is handed to the file-io
\* thread; save does nothing for a screenshot without an image
ScreenshotClick ==
    /\ visible /\ "screenshot" \in shown
    /\ queued + Len(saved) < MaxShots
    /\ Handle("screenshot_click", Cur)
    /\ \E hasImage \in BOOLEAN : queued' = IF hasImage THEN queued + 1 ELSE queued
    /\ UNCHANGED <<session, video, interaction, hover, previewDrag, legs, protocol,
                   raised, files, saved, fault, frames, chatInput>>

\* the file-io thread runs the save that waits longest, lines 2637-2642: the
\* base name is that of the second the save runs in, and QImage.save writes
\* the file or fails
SaveScreenshot ==
    /\ queued > 0
    /\ queued' = queued - 1
    /\ \E name \in ShotNames, written \in BOOLEAN :
          LET k == FirstFree(files[name])
          IN  IF written
              THEN /\ files' = [files EXCEPT ![name] = @ \cup {k}]
                   /\ saved' = Append(saved, [name |-> name, k |-> k,
                                              existed |-> k \in files[name]])
              ELSE UNCHANGED <<files, saved>>
    /\ UNCHANGED <<parent, geometry, visible, fullScreen, normalGeometry, container,
                   detachChecked, fullscreenChecked, active, shown, detachAnim,
                   previewAnim, preview, scaleFactor, previewMaxHeight,
                   previewInteractive, idleTimer, cursor, session, video, events,
                   last, track, interaction, hover, previewDrag, legs, protocol,
                   raised, fault, frames, chatInput>>

\* a file with one of the names of the sequence comes into the screenshots
\* directory from elsewhere
OtherFile ==
    /\ \E name \in ShotNames, k \in 0..1 :
          /\ k \notin files[name]
          /\ files' = [files EXCEPT ![name] = @ \cup {k}]
    /\ UNCHANGED <<parent, geometry, visible, fullScreen, normalGeometry, container,
                   detachChecked, fullscreenChecked, active, shown, detachAnim,
                   previewAnim, preview, scaleFactor, previewMaxHeight,
                   previewInteractive, idleTimer, cursor, session, video, events,
                   last, track, interaction, hover, previewDrag, legs, protocol,
                   raised, queued, saved, fault, frames, chatInput>>

vars == <<parent, geometry, visible, fullScreen, normalGeometry, container,
          detachChecked, fullscreenChecked, active, shown, detachAnim,
          previewAnim, preview, scaleFactor, previewMaxHeight,
          previewInteractive, idleTimer, cursor, session, video, events, last,
          track, interaction, hover, previewDrag, legs, protocol, raised,
          files, queued, saved, fault, frames, chatInput>>

Next ==
    \/ FullscreenClick
    \/ DetachClick
    \/ DetachAnimationTick
    \/ PreviewAnimationTick
    \/ IdleTimeout
    \/ MouseMove
    \/ ContainerResize
    \/ SessionWillConnect
    \/ SessionDidConnect
    \/ SessionWillAddStream
    \/ SessionDidRemoveStream
    \/ SessionDidEnd
    \/ KeyFrame
    \/ RemoteFormatChange

Spec == Init /\ [][Next]_vars

(***************************************************************************)
(* The preview under resizes of the overlay: the session brings the        *)
(* preview into place, then the user moves and resizes the preview and     *)
(* resizes the window of the container.                                    *)
(***************************************************************************)
NextPreview ==
    \/ SessionWillConnect
    \/ SessionDidConnect
    \/ KeyFrame
    \/ PreviewAnimationTick
    \/ PreviewAdjust
    \/ ContainerResizeByHand

SpecPreview == Init /\ [][NextPreview]_vars

(***************************************************************************)
(* The idle timer under pointer events: the session brings the overlay up, *)
(* the user detaches it, moves the pointer over it and its tool buttons    *)
(* and drags it.                                                           *)
(***************************************************************************)
NextIdle ==
    \/ SessionWillConnect
    \/ SessionDidConnect
    \/ SessionDidRemoveStream
    \/ SessionWillAddStream
    \/ KeyFrame
    \/ PreviewAnimationTick
    \/ DetachClick
    \/ DetachAnimationTick
    \/ IdleTimeout
    \/ PointerMove
    \/ MousePress
    \/ MouseRelease
    \/ ButtonEnter
    \/ ButtonLeave

SpecIdle == Init /\ [][NextIdle]_vars

(***************************************************************************)
(* The preview held by the user while the window of the container is       *)
(* resized.                                                                *)
(***************************************************************************)
NextPreviewDrag ==
    \/ SessionWillConnect
    \/ SessionDidConnect
    \/ KeyFrame
    \/ PreviewAnimationTick
    \/ PreviewPress
    \/ PreviewRelease
    \/ ContainerResizeByHand

SpecPreviewDrag == Init /\ [][NextPreviewDrag]_vars

(***************************************************************************)
(* The animations from start to finished signal: the session brings the    *)
(* overlay up, the user detaches and attaches it, the session is deleted.  *)
(***************************************************************************)
NextLegs ==
    \/ SessionWillConnect
    \/ SessionDidConnect
    \/ LegKeyFrame
    \/ LegPreviewTick
    \/ LegDetachClick
    \/ LegDetachTick
    \/ SessionWasDeleted

SpecLegs == Init /\ [][NextLegs]_vars

(***************************************************************************)
(* The scale factor: the user moves and resizes the preview between        *)
(* resizes of the container, changes of placement, timeouts of the idle    *)
(* timer and resets by the session.                                        *)
(***************************************************************************)
\* the user resizes the preview by its bottom right corner to one of the
\* heights, then the preview emits adjusted(old, new)
PreviewResize ==
    /\ visible /\ previewInteractive /\ ~previewAnim.running
    /\ \E h \in PreviewHeights \ {preview.h} :
          LET new == Rect(preview.x, preview.y, WidthForHeight(h), h)
          IN  /\ h >= PreviewMinHeight /\ h <= previewMaxHeight
              /\ new.x + new.w <= geometry.w /\ new.y + new.h <= geometry.h
              /\ Step("preview_adjust", PreviewAdjusted(Cur, preview, new))
    /\ UNCHANGED <<session, video>>

NextScale ==
    \/ SessionWillConnect
    \/ SessionDidConnect
    \/ SessionWillAddStream
    \/ KeyFrame
    \/ PreviewAnimationTick
    \/ PreviewResize
    \/ ContainerResize
    \/ DetachClick
    \/ DetachAnimationTick
    \/ FullscreenClick
    \/ IdleTimeout

SpecScale == Init /\ [][NextScale]_vars

(***************************************************************************)
(* The detached overlay under the hand of the user: the user resizes the   *)
(* overlay, which is a window of its own, and moves and resizes the        *)
(* preview in it.                                                          *)
(***************************************************************************)
AnchorSizes == {<<800, 600>>, <<400, 300>>, <<640, 360>>}

\* the user resizes the detached overlay by its bottom right corner
OverlayResizeByHand ==
    /\ visible /\ Interactive(Cur) /\ ~detachAnim.running
    /\ \E size \in AnchorSizes \ {SizeOf(geometry)} :
          Step("overlay_resize",
               SetGeometry(Cur, Rect(geometry.x, geometry.y, size[1], size[2])))
    /\ UNCHANGED <<session, video>>

NextAnchor ==
    \/ SessionWillConnect
    \/ SessionDidConnect
    \/ KeyFrame
    \/ PreviewAnimationTick
    \/ DetachClick
    \/ DetachAnimationTick
    \/ PreviewAdjust
    \/ OverlayResizeByHand

SpecAnchor == Init /\ [][NextAnchor]_vars

(***************************************************************************)
(* Resizes of the container that change the width of the overlay alone,    *)
(* or its height as well.                                                  *)
(***************************************************************************)
FrameSizes == {<<400, 300>>, <<640, 300>>, <<640, 700>>}

ContainerResizeAcross ==
    /\ \E size \in FrameSizes \ {container} :
          Step("container_resize", ContainerResized(Cur, size))
    /\ UNCHANGED <<session, video>>

NextFrame ==
    \/ SessionWillConnect
    \/ SessionDidConnect
    \/ SessionDidRemoveStream
    \/ SessionWillAddStream
    \/ KeyFrame
    \/ PreviewAnimationTick
    \/ PreviewResize
    \/ ContainerResizeAcross

SpecFrame == Init /\ [][NextFrame]_vars

(***************************************************************************)
(* Screenshots: the session brings the overlay and its screenshot button   *)
(* up, the user clicks the button, the file-io thread saves.               *)
(***************************************************************************)
NextShot ==
    \/ SessionWillConnect
    \/ SessionDidConnect
    \/ KeyFrame
    \/ PreviewAnimationTick
    \/ ScreenshotClick
    \/ SaveScreenshot
    \/ OtherFile

SpecShot == Init /\ [][NextShot]_vars

(***************************************************************************)
(* A video stream that is added to a session and fails.                    *)
(***************************************************************************)
NextAdd ==
    \/ SessionWillConnect
    \/ SessionDidConnect
    \/ SessionWillAddStream
    \/ SessionDidNotAddStream
    \/ KeyFrame
    \/ PreviewAnimationTick
    \/ FullscreenClick
    \/ DetachClick
    \/ DetachAnimationTick

SpecAdd == Init /\ [][NextAdd]_vars

(***************************************************************************)
(* The overlay in a container too small for it.                            *)
(***************************************************************************)
NextSmall ==
    \/ SessionWillConnect
    \/ SessionDidConnect
    \/ KeyFrame
    \/ PreviewAnimationTick
    \/ ContainerShrink

SpecSmall == Init /\ [][NextSmall]_vars

(***************************************************************************)
(* The animations under the timer that drives them: Qt runs a started      *)
(* animation from its event loop until it has reached its end, so the tick *)
(* of a running animation is taken in the end.  This is weak fairness of   *)
(* the two tick actions, WF_vars(DetachAnimationTick) and                  *)
(* WF_vars(PreviewAnimationTick), written with what enables a tick, the    *)
(* animation running, in the place of ENABLED.                             *)
(***************************************************************************)
NextRun ==
    \/ SessionWillConnect
    \/ SessionDidConnect
    \/ SessionDidEnd
    \/ KeyFrame
    \/ PreviewAnimationTick
    \/ DetachClick
    \/ DetachAnimationTick

DetachTickTaken ==
    detachAnim.running /\ last' \in {"detach_tick", "detach_finished"}

PreviewTickTaken ==
    previewAnim.running /\ last' \in {"preview_tick", "preview_finished"}

TicksAreFair ==
    /\ []<>(~detachAnim.running) \/ []<><<DetachTickTaken>>_vars
    /\ []<>(~previewAnim.running) \/ []<><<PreviewTickTaken>>_vars

SpecRun == Init /\ [][NextRun]_vars /\ TicksAreFair

(***************************************************************************)
(* Properties of the placement of the overlay.                             *)
(***************************************************************************)
\* the transition requests: the clicks on the detach and fullscreen buttons
Requests == {"detach_click", "attach_click", "fullscreen_enter", "fullscreen_exit"}

\* C1: a detach from a quiescent docked overlay, its preview in place and
\* its geometry the one its container gives it, run to the end of its
\* animation, then an attach run to the end of its animation, the container
\* keeping its size, leaves the overlay Docked, a child of the container,
\* with the geometry it had before the detach.
C1_RoundTrip ==
    (track.phase = "roundtrip" /\ track.laidOut) =>
        /\ Placement(Cur) = "Docked"
        /\ parent = "container"
        /\ geometry = track.geom
        /\ ~detachAnim.running

C1_RoundTripDone ==
    track.phase = "roundtrip" /\ track.laidOut /\ last = "detach_finished"

\* C2: a detach request on a docked overlay makes it a window and starts an
\* animation from its docked rectangle in screen coordinates to the rectangle
\* in the top right corner of the screen (10 pixels from the edges, 261 high,
\* as wide as the aspect ratio makes it); at the end of the animation the
\* overlay is Detached at that rectangle.
C2_Corner ==
    Rect(ScreenW - CornerInset - WidthForHeight(DetachedHeight), CornerInset,
         WidthForHeight(DetachedHeight), DetachedHeight)

C2_Detach ==
    /\ (track.phase = "detaching" /\ last = "detach_click") =>
          /\ parent = "none"
          /\ detachAnim.running /\ detachAnim.direction = "Forward"
          /\ detachAnim.startValue = Translated(track.geom, ContainerX, ContainerY)
          /\ detachAnim.endValue = C2_Corner
          /\ geometry = detachAnim.startValue
    /\ track.phase = "detached" =>
          /\ Placement(Cur) = "Detached"
          /\ parent = "none"
          /\ geometry = C2_Corner
          /\ Right(geometry) = ScreenW - 1 - CornerInset
          /\ ~detachAnim.running

C2_Detached == track.phase = "detached" /\ last = "detach_finished"

\* C3: entering fullscreen from Docked or Detached and leaving it again, at
\* once or later, leaves the overlay in the placement it came from: Docked as
\* a child of the container at the geometry derived from the container,
\* Detached as a window at the geometry it had when it entered fullscreen.
C3_FullscreenRoundTrip ==
    (track.phase = "fs_exited" /\ track.place \in {"Docked", "Detached"}) =>
        /\ Placement(Cur) = track.place
        /\ ~fullScreen /\ ~fullscreenChecked
        /\ track.place = "Docked" =>
              parent = "container" /\ geometry = GeometryHintFor(Cur, "container")
        /\ track.place = "Detached" =>
              parent = "none" /\ geometry = track.geom

C3_BackFromFullscreen ==
    /\ track.phase = "fs_exited" /\ last = "fullscreen_exit"
    /\ track.place = "Detached"
    /\ geometry # ScreenRect

\* C4, as the specification states it: an overlay hidden while fullscreen
\* ends up Docked, a child of its container.
C4_HiddenIsDocked ==
    track.phase = "hidden_fs" =>
        /\ ~fullScreen /\ ~fullscreenChecked
        /\ Placement(Cur) = "Docked"
        /\ parent = "container"

\* C4: an overlay hidden while fullscreen leaves fullscreen before it is
\* hidden and returns to the placement its detach button stands for: with the
\* button unchecked it is Docked, a child of its container; with the button
\* checked it stays a Detached window.
C4_HiddenLeavesFullscreen ==
    track.phase = "hidden_fs" =>
        /\ ~visible
        /\ ~fullScreen /\ ~fullscreenChecked
        /\ Placement(Cur) = track.place
        /\ track.place = "Docked" => parent = "container"
        /\ track.place = "Detached" => parent = "none"

C4_HiddenWhileDetachedFullscreen ==
    track.phase = "hidden_fs" /\ track.place = "Detached" /\ last \in HideOps

\* the geometry the running animation is heading for
AnimTarget ==
    IF detachAnim.direction = "Forward" THEN detachAnim.endValue
    ELSE detachAnim.startValue

\* C5, as the specification states it: a request that arrives while the
\* animation of the overlay runs is ignored, or the animation is first
\* resolved to its end value, so the new transition departs from there.
C5_Guarded ==
    [][(detachAnim.running /\ events' # events /\ last' \in Requests) =>
          \/ UNCHANGED <<parent, geometry, active, detachAnim>>
          \/ /\ last' = "detach_click" => detachAnim'.startValue = AnimTarget
             /\ last' = "attach_click" => detachAnim'.endValue = AnimTarget
             /\ last' \in {"fullscreen_enter", "fullscreen_exit"} =>
                   ~detachAnim'.running]_vars

\* C5: a request that arrives while the animation of the overlay runs is
\* never ignored and the animation is not resolved first.  A detach or
\* attach request retargets the one running animation: it keeps running with
\* its elapsed time, takes the direction requested, and departs from the
\* geometry the overlay has at the request; the effects of the completion of
\* the leg it replaces are not applied.  A fullscreen request leaves the
\* animation running.
C5_Retargeted ==
    [][(detachAnim.running /\ events' # events /\ last' \in Requests) =>
          /\ detachAnim'.running
          /\ detachAnim'.time = detachAnim.time
          /\ last' = "detach_click" =>
                /\ detachAnim'.direction = "Forward"
                /\ ~fullScreen => detachAnim'.startValue = GlobalRect(Cur)
                /\ active' = active
                /\ parent' = "none"
          /\ last' = "attach_click" =>
                /\ detachAnim'.direction = "Backward"
                /\ detachAnim'.endValue = geometry
                /\ active' = active
                /\ parent' = parent]_vars

C5_RetargetedInFlight ==
    /\ last = "attach_click"
    /\ detachAnim.running /\ detachAnim.direction = "Backward"
    /\ detachAnim.time \notin {0, DetachSteps}
    /\ detachAnim.endValue # AnimTarget
    /\ ~({"mute", "hold", "close"} \subseteq active)

C7_SamePlacement ==
    \/ last' = "fullscreen_enter" /\ fullScreen
    \/ last' = "fullscreen_exit" /\ ~fullScreen
    \/ last' = "detach_click" /\ Placement(Cur) = "Detached"
    \/ last' = "attach_click" /\ Placement(Cur) = "Docked"

Recomputed ==
    /\ last' = "container_resize" /\ events' # events
    /\ visible /\ parent = "container"
    /\ ~previewAnim.running
    /\ SizeOf(preview) # SizeOf(geometry)
    /\ geometry.h > 0 /\ geometry.w > 0
    /\ geometry'.h > 0 /\ geometry'.w > 0
    /\ geometry'.h # geometry.h

\* the cell of the grid of thirds of size that holds the center of r, the
\* lower cell when the center lies on a line of the grid
ZoneOf(r, size) == Gravity(r, size, size)

\* C8: a resize of the overlay that changes its height leaves the center of
\* the preview in the cell of the grid of thirds it was in before.
C8_GravityPreserved ==
    [][Recomputed =>
          ZoneOf(preview', SizeOf(geometry')) = ZoneOf(preview, SizeOf(geometry))]_vars

\* C9: whenever resizeEvent classifies the scaled center of the preview, the
\* center lies in a cell of the grid of thirds of the new size, so that a
\* branch of the chain is taken.
C9_GravityTotal ==
    [][Recomputed =>
          Gravity(preview, SizeOf(geometry), SizeOf(geometry')) \in Cells]_vars

\* C10: after resizeEvent has computed the rectangle of the preview anew, a
\* preview no larger than the overlay lies inside the overlay.
C10_PreviewContained ==
    [][(/\ Recomputed
        /\ preview'.w <= geometry'.w
        /\ preview'.h <= geometry'.h) =>
          ContainedIn(preview', SizeOf(geometry'))]_vars

C12_NoTimerDuringDrag == interaction => ~idleTimer

\* the idle timer has timed out in the middle of a drag of the overlay
C12_TimeoutDuringDrag == interaction /\ last = "idle_timeout" /\ cursor = "Blank"

\* C13: while the preview animation is running the idle timer is not running.
C13_NoTimerDuringPreviewAnimation == previewAnim.running => ~idleTimer

\* the idle timer has timed out while the preview animation was running
C13_TimeoutDuringPreviewAnimation ==
    previewAnim.running /\ last = "idle_timeout" /\ cursor = "Blank"

(***************************************************************************)
(* Resizes of the container against interactions and animations.           *)
(***************************************************************************)
\* C14: a resize of the container that comes while the user holds the
\* preview to move or resize it leaves the rectangle of the preview as it is.
C14_HeldPreviewKept ==
    [][(previewDrag /\ previewDrag' /\ last' = "container_resize") =>
          preview' = preview]_vars

\* the container has been resized with the preview held by the user
C14_ResizedWhileHeld == previewDrag /\ last = "container_resize" /\ visible

\* the rectangle on the screen of an overlay docked in a container of the
\* given size
DockedTarget(size) ==
    Translated(GeometryHintFor([Cur EXCEPT !.container = size], "container"),
               ContainerX, ContainerY)

\* C15, as the specification states it: a resize of the container that comes
\* while the attach animation runs is applied to the target of the animation,
\* which becomes the rectangle computed for the new size of the container.
C15_TargetRecomputed ==
    [][(/\ detachAnim.running /\ detachAnim.direction = "Backward"
        /\ last' = "container_resize") =>
          AnimTarget' = DockedTarget(container')]_vars

\* C15: a resize of the container that comes while an animation runs leaves
\* the start and end values of the animation as they are.  When the attach
\* animation ends, its completion handler docks the overlay with the geometry
\* computed for the size the container has then; when the preview animation
\* ends, the preview has the rectangle of its initial height at the top left,
\* which depends on no size of the container.
C15_FreshAtCompletion ==
    [][/\ last' = "container_resize" =>
             /\ detachAnim' = detachAnim
             /\ previewAnim' = previewAnim
       /\ (last' = "detach_finished" /\ detachAnim'.direction = "Backward") =>
             /\ parent' = "container"
             /\ Translated(geometry', ContainerX, ContainerY) =
                   DockedTarget(container')
       /\ last' = "preview_finished" =>
             preview' = Rect(0, 0, WidthForHeight(PreviewInitHeight),
                             PreviewInitHeight)]_vars

\* the attach animation has ended after a resize of the container: the
\* overlay is docked away from the rectangle the animation headed for
C15_ResizedInFlight ==
    /\ last = "detach_finished" /\ detachAnim.direction = "Backward"
    /\ parent = "container"
    /\ AnimTarget # DockedTarget(container)

(***************************************************************************)
(* The animations and their finished signals.                              *)
(***************************************************************************)
\* the animations that run
Running ==
    (IF detachAnim.running THEN 1 ELSE 0) + (IF previewAnim.running THEN 1 ELSE 0)

C17_NoOrphan ==
    /\ detachAnim.running ~> ~detachAnim.running
    /\ [](last = "detach_finished" =>
            IF detachAnim.direction = "Backward"
            THEN /\ parent = "container"
                 /\ {"mute", "hold", "close"} \cap active = {}
            ELSE {"mute", "hold", "close"} \subseteq active)

\* an attach animation has come to its end
C17_AttachCompleted ==
    /\ last = "detach_finished" /\ detachAnim.direction = "Backward"
    /\ ~detachAnim.running /\ visible

(***************************************************************************)
(* The snapshot against flicker.                                           *)
(***************************************************************************)
FlickerCalls ==
    <<"grab", "snapshot_show", "set_parent", "set_geometry", "show", "snapshot_hide">>

\* the handler that ran last has changed the parent of the overlay on a leg
\* between Docked and Detached
Reparenting ==
    \/ last = "detach_click"
    \/ last = "detach_finished" /\ detachAnim.direction = "Backward"

\* C18: on the detach leg and on the attach leg the handler grabs the
\* overlay, shows the snapshot at the rectangle the overlay has on the
\* screen, changes the parent of the overlay, sets its geometry and shows it,
\* and hides the snapshot, in this order; the snapshot is visible at the
\* change of parent, and it is not visible when no handler runs.
C18_FlickerOrder ==
    /\ ~protocol.snapshot
    /\ IF Reparenting
       THEN /\ [i \in 1..Len(protocol.calls) |-> protocol.calls[i].call] =
                  FlickerCalls
            /\ protocol.calls[2].rect = protocol.calls[1].rect
            /\ \A i \in 3..5 : protocol.calls[i].snapshot
            /\ ~protocol.calls[1].snapshot
       ELSE protocol.calls = <<>>

\* the attach leg has docked the overlay behind the snapshot
C18_DockedBehindSnapshot ==
    /\ last = "detach_finished" /\ detachAnim.direction = "Backward"
    /\ parent = "container" /\ visible
    /\ Len(protocol.calls) = 6

(***************************************************************************)
(* Sizes that are not valid.                                               *)
(***************************************************************************)
\* C19: after a resize of the container, whatever its size, the visible
\* overlay and its preview have a width and a height above 0 and the resize
\* event has ended without an exception.
C19_SafeSizes ==
    (last = "container_resize" /\ visible) =>
        /\ geometry.w > 0 /\ geometry.h > 0
        /\ preview.w > 0 /\ preview.h > 0
        /\ ~raised

\* the resize event of a visible overlay has raised an exception
C19_ResizeRaised == last = "container_resize" /\ visible /\ raised

(***************************************************************************)
(* A video stream that could not be added.                                 *)
(***************************************************************************)
\* C20, as the specification states it: when the video stream could not be
\* added, a visible overlay stays visible and keeps its placement.
C20_FailureKeepsVisible ==
    [][(last' = "did_not_add_stream" /\ visible) =>
          /\ visible'
          /\ Placement(Cur)' = Placement(Cur)]_vars

\* C20: when the video stream could not be added the overlay is hidden.  It
\* keeps the state of the detach button, and its parent and geometry unless
\* it was in fullscreen mode, which it leaves.
C20_FailureHides ==
    [][last' = "did_not_add_stream" =>
          /\ ~visible'
          /\ ~fullScreen'
          /\ detachChecked' = detachChecked
          /\ ~fullScreen => (parent' = parent /\ geometry' = geometry)]_vars

\* a visible overlay has been hidden because the stream was not added
C20_HiddenAfterFailure ==
    /\ last = "did_not_add_stream"
    /\ ~visible /\ ~video
    /\ parent = "container"

(***************************************************************************)
(* Screenshots.                                                            *)
(***************************************************************************)
\* the numbers of the files the saves have written for a base name, in order
RECURSIVE WrittenFor(_, _)
WrittenFor(name, log) ==
    IF log = <<>> THEN <<>>
    ELSE IF Head(log).name = name
         THEN <<Head(log).k>> \o WrittenFor(name, Tail(log))
         ELSE WrittenFor(name, Tail(log))

\* C21: no save has written a file that existed when its name was chosen,
\* and for a base name of which the directory holds no file but those the
\* saves have written, the saves have written name.png, name-1.png, ...,
\* name-k.png, in this order, each once.
C21_NoOverwrite ==
    /\ \A i \in 1..Len(saved) : ~saved[i].existed
    /\ \A name \in ShotNames :
          LET written == WrittenFor(name, saved)
          IN  files[name] = {written[i] : i \in 1..Len(written)} =>
                written = [i \in 1..Len(written) |-> i - 1]

\* three screenshots have been saved under one base name
C21_ThreeSaved ==
    \E name \in ShotNames : WrittenFor(name, saved) = <<0, 1, 2>>

(***************************************************************************)
(* Construction.                                                           *)
(***************************************************************************)
SpecConstruct == InitConstructed /\ [][Next]_vars

\* C23 as stated: after construction the overlay is docked (a child of its
\* container, detach and fullscreen off), no control is active and the overlay
\* is hidden.
C23_HiddenAtConstruction ==
    last = "init" =>
        /\ parent = "container" /\ ~detachChecked /\ ~fullscreenChecked /\ ~fullScreen
        /\ active = {}
        /\ ~visible

\* C23, amended: after construction the overlay is docked, no control is
\* active, and the overlay is visible exactly when the session has a video
\* stream already.
C23_DockedAtConstruction ==
    last = "init" =>
        /\ parent = "container" /\ ~detachChecked /\ ~fullscreenChecked /\ ~fullScreen
        /\ Placement(Cur) = "Docked"
        /\ active = {}
        /\ visible = video

\* an overlay constructed for a session that has a video stream
C23_ConstructedWithVideo ==
    last = "init" /\ video /\ visible /\ parent = "container" /\ active = {}

(***************************************************************************)
(* The owner of the overlay.                                               *)
(***************************************************************************)
\* a session that has ended, or never started, is deleted: the overlay is
\* hidden by then, and is torn down
SessionDeletedAfterEnd ==
    /\ session = "idle" /\ ~visible
    /\ session' = "deleted"
    /\ video' = FALSE
    /\ Step("was_deleted", SessionWasDeletedHandler(Cur))

NextOwner ==
    \/ Next
    \/ SessionDeletedAfterEnd

SpecOwner == Init /\ [][NextOwner]_vars

\* an animation that brings the overlay back to its container is running
Attaching == detachAnim.running /\ detachAnim.direction = "Backward"

OwnerMatchesPlacement ==
    /\ Placement(Cur) \in {"Detached", "Fullscreen"} => parent = "none"
    /\ (Placement(Cur) = "Docked" /\ ~Attaching) => parent = "container"
    /\ (fullScreen \/ fullscreenChecked) => parent # "container"

\* C24 as stated: in every reachable state a detached or fullscreen overlay
\* has no parent, a docked overlay with no attach animation in flight is a
\* child of its container, and fullscreen is never set on a child of the
\* container.
C24_OwnerAlways == OwnerMatchesPlacement

\* C24, amended: the same in every state in which the session has not been
\* deleted; the deletion of the session leaves the overlay without a parent.
C24_OwnerWhileSessionLives ==
    /\ session # "deleted" => OwnerMatchesPlacement
    /\ session = "deleted" => parent = "none"

\* the overlay went to fullscreen mode while the animation that brings it back
\* to the container was running
C24_FullscreenWhileAttaching ==
    /\ last = "fullscreen_enter" /\ Placement(Cur) = "Fullscreen" /\ Attaching
    /\ ~detachChecked /\ parent = "none"

(***************************************************************************)
(* Entering fullscreen mode.                                               *)
(***************************************************************************)
\* C25: a click that enters fullscreen mode leaves the overlay a top-level
\* window in fullscreen mode, with the detach button inactive, the mute, hold
\* and close buttons active and the overlay not interactive; from Docked the
\* overlay is first made top-level at the rectangle it had on the screen,
\* which is the geometry fullscreen mode keeps for the way back.
C25_EnterFullscreen ==
    [][(last' = "fullscreen_enter" /\ Placement(Cur) \in {"Docked", "Detached"}) =>
         /\ fullScreen' /\ parent' = "none" /\ visible'
         /\ geometry' = ScreenRect
         /\ Placement(Cur) = "Docked" => normalGeometry' = GlobalRect(Cur)
         /\ Placement(Cur) = "Detached" => normalGeometry' = geometry
         /\ "detach" \notin active'
         /\ {"mute", "hold", "close"} \subseteq active'
         /\ ~Interactive(Cur)']_vars

\* fullscreen mode entered from Docked, with the overlay in its container
C25_FullscreenFromDocked ==
    /\ last = "fullscreen_enter" /\ fullScreen /\ ~detachChecked
    /\ ~detachAnim.running
    /\ normalGeometry = Translated(GeometryHintFor(Cur, "container"), ContainerX, ContainerY)
    /\ {"mute", "hold", "close"} \subseteq active /\ "detach" \notin active

(***************************************************************************)
(* The anchor of the preview.                                              *)
(***************************************************************************)
\* C26: whenever resizeEvent classifies the scaled center of the preview in
\* the grid of thirds of the new size, it finds the cell that holds the center
\* of the preview in the grid of thirds of the old size.
C26_AnchorIsOldZone ==
    [][Recomputed =>
          Gravity(preview, SizeOf(geometry), SizeOf(geometry')) =
             ZoneOf(preview, SizeOf(geometry))]_vars

\* the step is a resize of the detached overlay by the user that makes
\* resizeEvent compute the rectangle of the preview anew
Reanchored ==
    /\ last' = "overlay_resize"
    /\ ~previewAnim.running
    /\ SizeOf(preview) # SizeOf(geometry)
    /\ geometry.h > 0 /\ geometry'.h # geometry.h

\* r and ideal have in common what the anchor of the cell names
SharesAnchor(r, ideal, cell) ==
    /\ cell % 3 = 0 => Left(r) = Left(ideal)
    /\ cell % 3 = 1 => CenterX(r) = CenterX(ideal)
    /\ cell % 3 = 2 => Right(r) = Right(ideal)
    /\ cell \div 3 = 0 => Top(r) = Top(ideal)
    /\ cell \div 3 = 1 => CenterY(r) = CenterY(ideal)
    /\ cell \div 3 = 2 => Bottom(r) = Bottom(ideal)

\* C27: when resizeEvent has taken the branch of an anchor, the new rectangle
\* of the preview and the scaled and clamped old one have the corner, or the
\* edge and the center along it, or the center, of that anchor in common; a
\* preview in the bottom right corner of an overlay of 800x600 is in the
\* bottom right corner of the overlay resized to 400x300.
C27_AnchorShared ==
    [][Reanchored =>
          LET old == SizeOf(geometry)
              new == SizeOf(geometry')
              cell == Gravity(preview, old, new)
          IN  /\ cell \in Cells =>
                    SharesAnchor(preview', IdealGeometry(preview, old, new), cell)
              /\ (/\ old = <<800, 600>> /\ new = <<400, 300>>
                  /\ Right(preview) = 799 /\ Bottom(preview) = 599) =>
                    /\ cell = 8
                    /\ Right(preview') = 399 /\ Bottom(preview') = 299]_vars

\* the overlay was resized from 800x600 to 400x300 with the preview in its
\* bottom right corner
C27_BottomRightKept ==
    /\ last = "overlay_resize" /\ SizeOf(geometry) = <<400, 300>>
    /\ Right(preview) = 399 /\ Bottom(preview) = 299
    /\ SizeOf(preview) # SizeOf(geometry)

(***************************************************************************)
(* The size of the preview after a resize of the overlay.                  *)
(***************************************************************************)
\* limit((new height + 117) / 6 * scale_factor, 45, 135) as a fraction
NewHeightQ ==
    LimitQ((geometry'.h + HeightOffset) * scaleFactor[1],
           HeightDivisor * scaleFactor[2], PreviewMinHeight, PreviewMaxHeight)

\* C28 as stated: after resizeEvent has computed the rectangle of the preview
\* anew, the height of the preview is (new height + 117) / 6 * scale factor
\* limited to 45..135, and its width is the width of that height at the fixed
\* aspect ratio.
C28_HeightExact ==
    [][Recomputed =>
          /\ preview'.h * NewHeightQ[2] = NewHeightQ[1]
          /\ preview'.h >= PreviewMinHeight /\ preview'.h <= PreviewMaxHeight
          /\ preview'.w = WidthForHeight(preview'.h)]_vars

\* C28, amended: the height is that value cut to a whole number of pixels,
\* which lies in 45..135, and the width is the width at the fixed aspect
\* ratio of the value before it is cut.
C28_HeightLimited ==
    [][Recomputed =>
          /\ preview'.h = FloorDiv(NewHeightQ[1], NewHeightQ[2])
          /\ preview'.h >= PreviewMinHeight /\ preview'.h <= PreviewMaxHeight
          /\ preview'.w = WidthForHeightQ(NewHeightQ[1], NewHeightQ[2])]_vars

\* the overlay was resized to the height 360 with the scale factor 1: the
\* preview is 79 high, from 79.5, and 141 wide
C28_CutToWholePixels ==
    /\ last = "container_resize" /\ visible /\ ~previewAnim.running
    /\ geometry.h = 360 /\ scaleFactor = <<1, 1>>
    /\ preview.h = 79 /\ preview.w = 141

(***************************************************************************)
(* Resizes of the overlay that leave the preview alone.                    *)
(***************************************************************************)
\* the step is a resize of the container with the overlay docked in it
HostResized == last' = "container_resize" /\ events' # events /\ parent = "container"

\* the preview has the size of the overlay
Fills == SizeOf(preview) = SizeOf(geometry)

\* C29 as stated: a resize of the overlay leaves the preview as it is when
\* the overlay had no size before (it is hidden and gets its resize event with
\* an invalid old size when it is shown), when its size does not change, when
\* its height does not change, and while the preview animation runs.
C29_PreviewLeftAlone ==
    [][(/\ HostResized
        /\ \/ ~visible
           \/ SizeOf(geometry') = SizeOf(geometry)
           \/ geometry'.h = geometry.h
           \/ previewAnim.running) => preview' = preview]_vars

\* C29, amended: the same, except that a preview that has the size of the
\* overlay and is not animated is resized with the overlay also when the
\* width alone changes.
C29_PreviewLeftAloneUnlessFilling ==
    [][HostResized =>
          /\ (\/ ~visible
              \/ SizeOf(geometry') = SizeOf(geometry)
              \/ previewAnim.running
              \/ geometry'.h = geometry.h /\ ~Fills) => preview' = preview
          /\ (/\ visible /\ ~previewAnim.running /\ Fills
              /\ geometry'.h = geometry.h /\ geometry'.w # geometry.w) =>
                 /\ preview'.w = geometry'.w
                 /\ preview' # preview]_vars

\* the overlay went from 400x125 to 640x125 with the preview in its place
\* after the shrink animation: the preview is as it was
C29_WidthOnlyKept ==
    /\ last = "container_resize" /\ visible /\ ~previewAnim.running
    /\ SizeOf(geometry) = <<640, 125>>
    /\ preview = Rect(0, 0, WidthForHeight(PreviewInitHeight), PreviewInitHeight)

(***************************************************************************)
(* The preview that fills the overlay.                                     *)
(***************************************************************************)
\* C30: a resize of the visible overlay whose preview has the size of the
\* overlay, with no preview animation running, gives the preview the new
\* size of the overlay and leaves it at the origin, so that it still fills
\* the overlay.
C30_StillFills ==
    [][(/\ HostResized /\ visible
        /\ Fills /\ ~previewAnim.running) =>
          /\ SizeOf(preview') = SizeOf(geometry')
          /\ preview'.x = preview.x /\ preview'.y = preview.y]_vars

\* the preview no longer has the size of the overlay it filled before the
\* resize
C30_FillLost ==
    /\ last = "container_resize" /\ visible /\ ~previewAnim.running
    /\ session = "connecting" /\ previewMaxHeight > PreviewMaxHeight
    /\ ~Fills

(***************************************************************************)
(* The scale factor of the preview.                                        *)
(***************************************************************************)
\* the handlers that set the scale factor to 1.0
ScaleResets == {"will_connect", "did_connect", "will_add_stream"}

\* C22: the scale factor is above 0; it takes a new value only when the user
\* resizes the preview, and then it is the new height of the preview over
\* (height of the overlay + 117) / 6, or when the session connects or a video
\* stream is added, and then it is 1; a resize of the container, a change of
\* placement and a timeout of the idle timer leave it as it is.
C22_ScaleFactorKept ==
    [][/\ scaleFactor'[1] > 0 /\ scaleFactor'[2] > 0
       /\ (last' = "preview_adjust" /\ SizeOf(preview') # SizeOf(preview)) =>
             scaleFactor' = <<HeightDivisor * preview'.h, geometry.h + HeightOffset>>
       /\ scaleFactor'[1] * scaleFactor[2] # scaleFactor[1] * scaleFactor'[2] =>
             \/ last' = "preview_adjust" /\ SizeOf(preview') # SizeOf(preview)
             \/ last' \in ScaleResets /\ scaleFactor' = <<1, 1>>]_vars

\* the container has been resized with a scale factor the user has set
C22_ResizedWithUserScale ==
    /\ last = "container_resize" /\ visible
    /\ scaleFactor[1] # scaleFactor[2]
    /\ ~previewAnim.running /\ previewInteractive

(***************************************************************************)
(* The overlay and its container.                                          *)
(***************************************************************************)
\* C31: a resize of the container gives the overlay that is a child of it
\* (Docked) the origin, the width of the container and the height
\* min(height of that width at the aspect ratio, height of the container -
\* 175); it leaves the geometry of a detached or fullscreen overlay, which
\* has no parent, as it is.
C31_FollowsContainer ==
    [][last' = "container_resize" =>
         /\ parent = "container" =>
               /\ Placement(Cur) = "Docked"
               /\ geometry' = Rect(0, 0, container'[1],
                                   Min(HeightForWidth(container'[1]),
                                       container'[2] - ReservedHeight))
         /\ (Placement(Cur) \in {"Detached", "Fullscreen"} \/ parent = "none") =>
               geometry' = geometry]_vars

\* the docked overlay has followed its container to 640x700
C31_Followed ==
    /\ last = "container_resize" /\ visible /\ parent = "container"
    /\ container = <<640, 700>>
    /\ geometry = Rect(0, 0, 640, 360)

(***************************************************************************)
(* The tool buttons.                                                       *)
(***************************************************************************)
\* C32: every tool button that is shown is active, and the timeout of the
\* idle timer leaves the set of active buttons as it is.
C32_ShownAreActive ==
    /\ shown \subseteq active
    /\ fullScreen => "detach" \notin shown

\* the detach button is shown, and is not active, on the fullscreen overlay
C32_DetachShownInFullscreen ==
    /\ last = "detach_finished" /\ fullScreen /\ visible
    /\ "detach" \in shown /\ "detach" \notin active

\* the tool buttons that go with a placement
ActiveFor(place) ==
    CASE place = "Docked" -> {"detach", "fullscreen", "screenshot"}
      [] place = "Detached" -> {"detach", "fullscreen", "screenshot", "mute", "hold", "close"}
      [] OTHER -> {"fullscreen", "screenshot", "mute", "hold", "close"}

\* C33: when the overlay is visible, the preview has been shrunk and neither
\* animation runs, the active tool buttons are those of the placement.
C33_ActiveByPlacement ==
    (visible /\ previewInteractive /\ Quiescent(Cur)) =>
        active = ActiveFor(Placement(Cur))

\* the attach animation has brought the overlay back to its container after
\* a fullscreen click, and the detach button is not active
C33_DockedWithoutDetach ==
    /\ last = "detach_finished" /\ visible /\ previewInteractive /\ Quiescent(Cur)
    /\ Placement(Cur) = "Docked" /\ parent = "container"
    /\ active = {"fullscreen", "screenshot"}

(***************************************************************************)
(* The reset of the overlay by the session.                                *)
(***************************************************************************)
\* the step is a handler that resets the overlay for a video stream
Reset == last' \in ScaleResets /\ video'

\* C34: after BlinkSessionWillConnect and BlinkSessionDidConnect with a video
\* stream and after BlinkSessionWillAddStream for one, the overlay is shown
\* as a child of its container with the detach button unchecked and not in
\* fullscreen mode, no tool button is active, the scale factor is 1, and the
\* preview has the rectangle of the overlay and is not interactive.
C34_ResetDocks ==
    [][Reset =>
         /\ visible'
         /\ parent' = "container" /\ ~detachChecked' /\ ~fullScreen' /\ ~fullscreenChecked'
         /\ active' = {}
         /\ scaleFactor' = <<1, 1>>
         /\ preview' = RectOfSize(SizeOf(geometry'))
         /\ ~previewInteractive']_vars

\* a video stream was added to the session whose overlay was detached
C34_ResetFromDetached ==
    /\ last = "will_add_stream" /\ visible /\ parent = "container"
    /\ active = {} /\ ~previewInteractive
    /\ detachAnim.endValue = CornerRect /\ ~detachAnim.running

(***************************************************************************)
(* From the reset to the end of the shrink animation.                      *)
(***************************************************************************)
\* C35: from a reset until the preview animation has finished the preview is
\* not interactive and no tool button is active; a key frame starts the
\* preview animation, from the rectangle of the overlay to the rectangle of
\* height 81 at the origin, when the preview has the size of the overlay and
\* the animation does not run, and leaves the animation alone otherwise; when
\* the animation finishes, the detach, fullscreen and screenshot buttons are
\* active, the preview is interactive with the maximum height 135 and the
\* idle timer runs.
C35_QuietUntilShrunk ==
    [][/\ ~previewInteractive' => active' = {}
       /\ last' = "key_frame" =>
             IF ~previewAnim.running /\ SizeOf(preview) = SizeOf(geometry)
             THEN /\ previewAnim'.running
                  /\ previewAnim'.startValue = RectOfSize(SizeOf(geometry))
                  /\ previewAnim'.endValue =
                        Rect(0, 0, WidthForHeight(PreviewInitHeight), PreviewInitHeight)
             ELSE previewAnim' = previewAnim
       /\ last' = "preview_finished" =>
             /\ {"detach", "fullscreen", "screenshot"} \subseteq active'
             /\ previewInteractive' /\ previewMaxHeight' = PreviewMaxHeight
             /\ idleTimer']_vars

\* the mute, hold and close buttons are active on the docked overlay whose
\* preview still fills it
C35_ActiveBeforeShrunk ==
    /\ last = "detach_finished" /\ visible /\ parent = "container"
    /\ ~previewInteractive /\ SizeOf(preview) = SizeOf(geometry)
    /\ active = {"mute", "hold", "close"}

(***************************************************************************)
(* After the session is deleted.  _NH_BlinkSessionWasDeleted sets          *)
(* parent_widget, detach_animation and preview_animation to None; the      *)
(* overlay stays an observer of the key frames and, when it is a window    *)
(* that is visible, takes the clicks of the user.                          *)
(***************************************************************************)
HandlesCleared == session = "deleted"

\* _SH_DetachButtonClicked(checked), lines 1301-1343, with the handles None:
\* the detach runs up to line 1323 and raises at line 1325, on
\* detach_animation; the attach raises at line 1333, on parent_widget
DetachButtonClickedCleared(w, checked) ==
    IF checked
    THEN LET a == IF w.fullScreen THEN ShowNormal(w) ELSE w
             startGeometry == GlobalRect(a)
             s1 == ShowSnapshot(Grab(a, GlobalRect(a)), GlobalRect(a))
             s2 == Logged(SetParent(s1, "none"), "set_parent", NoRect)
             s3 == Logged(SetGeometry(s2, startGeometry), "set_geometry",
                          startGeometry)
         IN  HideSnapshot(Logged(Show(s3), "show", NoRect))
    ELSE w

\* _SH_FullscreenButtonClicked(checked), lines 1274-1299, with parent_widget
\* as it is: the container, or None after the session was deleted.  The
\* handler passes parent_widget on and calls no method of it, so with None
\* the overlay that leaves fullscreen mode is given no parent
FullscreenButtonClickedWith(w, checked, parentWidget) ==
    IF checked
    THEN LET a == IF ~w.detachChecked
                  THEN LET g == GlobalRect(w)
                       IN  Show(SetGeometry(SetParent(w, "none"), g))
                  ELSE w
             b == SetCallControlsActive(SetActive(a, "detach", FALSE), TRUE)
             c == ShowFullScreen(b)
         IN  [c EXCEPT !.shown = @ \cup {"fullscreen"}, !.cursor = "Arrow"]
    ELSE LET a == IF ~w.detachChecked
                  THEN LET g1 == SetGeometry(w, GeometryHintFor(w,
                                      IF parentWidget = "none" THEN w.parent
                                      ELSE parentWidget))
                           g2 == SetParent(g1, parentWidget)
                           g3 == SetGeometry(g2, GeometryHint(g2))
                       IN  SetCallControlsActive(g3, FALSE)
                  ELSE w
             b == ShowNormal(SetActive(a, "detach", TRUE))
         IN  [b EXCEPT !.cursor = "Arrow"]

\* _NH_VideoStreamReceivedKeyFrame, lines 1248-1253, with the handles None:
\* blink_session is None and is not the session of the sender, and
\* preview_animation is None, so the condition of line 1249 is false
ReceivedKeyFrameCleared(w) == w

\* a handler that may run after the session has been deleted; the events
\* after the deletion are not counted
Later(op, w, f) ==
    /\ Commit(w)
    /\ last' = op
    /\ track' = NextTrack(op, w)
    /\ fault' = f
    /\ IF HandlesCleared
       THEN events' = events
       ELSE events < MaxEvents /\ events' = events + 1
    /\ UNCHANGED <<session, video, interaction, hover, previewDrag, legs,
                   protocol, raised, files, queued, saved, frames, chatInput>>

\* the session, ended or never started, is deleted; the overlay is hidden
\* only if it has a parent to leave
SessionDeleted ==
    /\ session = "idle"
    /\ session' = "deleted"
    /\ Commit(SessionWasDeletedHandler(Cur))
    /\ last' = "was_deleted"
    /\ track' = NextTrack("was_deleted", SessionWasDeletedHandler(Cur))
    /\ UNCHANGED <<events, video, interaction, hover, previewDrag, legs, protocol,
                   raised, files, queued, saved, fault, frames, chatInput>>

\* a click on the detach button, before or after the session is deleted
TeardownDetachClick ==
    /\ visible /\ "detach" \in shown
    /\ LET checked == ~detachChecked
           w == [Cur EXCEPT !.detachChecked = checked]
           op == IF checked THEN "detach_click" ELSE "attach_click"
       IN  IF HandlesCleared
           THEN Later(op, DetachButtonClickedCleared(w, checked),
                      IF fault # "none" THEN fault
                      ELSE IF checked THEN "detach_animation" ELSE "parent_widget")
           ELSE /\ Step(op, DetachButtonClicked(w, checked))
                /\ UNCHANGED <<session, video>>

\* a click on the fullscreen button, before or after the session is deleted
TeardownFullscreenClick ==
    /\ visible /\ "fullscreen" \in shown
    /\ LET checked == ~fullscreenChecked
       IN  Later(IF checked THEN "fullscreen_enter" ELSE "fullscreen_exit",
                 FullscreenButtonClickedWith([Cur EXCEPT !.fullscreenChecked = checked],
                     checked, IF HandlesCleared THEN "none" ELSE "container"),
                 fault)

\* a key frame of a stream of another session, after this one is deleted
TeardownKeyFrame ==
    /\ HandlesCleared
    /\ last # "key_frame"
    /\ Later("key_frame", ReceivedKeyFrameCleared(Cur), fault)

\* the pointer moves over the overlay after the session is deleted
TeardownMouseMove ==
    /\ HandlesCleared /\ visible
    /\ Later("mouse_move", MouseMoveEvent(Cur), fault)

\* the container is resized after the session is deleted
TeardownContainerResize ==
    /\ HandlesCleared
    /\ \E size \in ContainerSizes \ {container} :
          Later("container_resize", ContainerResized(Cur, size), fault)

NextTeardown ==
    \/ SessionWillConnect
    \/ SessionDidConnect
    \/ KeyFrame
    \/ PreviewAnimationTick
    \/ DetachAnimationTick
    \/ IdleTimeout
    \/ SessionDidEnd
    \/ SessionDeleted
    \/ TeardownDetachClick
    \/ TeardownFullscreenClick
    \/ TeardownKeyFrame
    \/ TeardownMouseMove
    \/ TeardownContainerResize

SpecTeardown == Init /\ [][NextTeardown]_vars

\* C36: in every reachable state, also after the notification that the
\* session was deleted has set the animations and the parent container to
\* None, no handler has called a method of an attribute that is None.
C36_NoClearedHandleUsed == fault = "none"

\* a click on the detach button of the overlay of a deleted session has
\* raised on parent_widget
C36_AttachAfterTeardown ==
    /\ session = "deleted" /\ last = "attach_click"
    /\ visible /\ fault = "parent_widget"

(***************************************************************************)
(* The frames: the producers attached to the overlay and to the camera     *)
(* preview, and the image each of the two surfaces has cached.             *)
(***************************************************************************)
\* variant: the producers are detached and the last frames stay
DetachFramesKeepsImages(f) ==
    [f EXCEPT !.producer = FALSE, !.previewProducer = FALSE]

\* lines 1212-1215, 1220-1223, 1227-1230 and 1184-1187: producer, _image,
\* camera_preview.producer and camera_preview._image are set to None
DetachFrames(f) ==
    [producer |-> FALSE, image |-> FALSE,
     previewProducer |-> FALSE, previewImage |-> FALSE]

\* lines 1160 and 1201: the camera is attached to the preview
AttachCamera(f) == [f EXCEPT !.previewProducer = TRUE]

\* lines 1179 and 1207: the producer of the video stream is attached
AttachStream(f) == [f EXCEPT !.producer = TRUE]

\* a handler of the overlay that attaches or detaches producers
Media(op, w, f) ==
    /\ Handle(op, w)
    /\ frames' = f
    /\ UNCHANGED <<interaction, hover, previewDrag, legs, protocol, raised,
                   files, queued, saved, fault, chatInput>>

\* _NH_BlinkSessionWillConnect, lines 1148-1162
MediaWillConnect ==
    /\ session = "idle"
    /\ session' = "connecting"
    /\ \E v \in BOOLEAN :
          /\ video' = v
          /\ Media("will_connect", IF v THEN SessionWillAddVideo(Cur) ELSE Cur,
                   IF v THEN AttachCamera(frames) ELSE frames)

\* _NH_BlinkSessionDidConnect, lines 1164-1187
MediaDidConnect ==
    /\ session = "connecting"
    /\ session' = "connected"
    /\ Media("did_connect",
             IF video THEN SessionDidConnectVideo(Cur) ELSE HideVideo(Cur),
             IF video THEN AttachStream(AttachCamera(frames)) ELSE DetachFrames(frames))
    /\ UNCHANGED video

\* _NH_BlinkSessionWillAddStream for a video stream, lines 1189-1203
MediaWillAddStream ==
    /\ session = "connected" /\ ~video
    /\ video' = TRUE
    /\ Media("will_add_stream", SessionWillAddVideo(Cur), AttachCamera(frames))
    /\ UNCHANGED session

\* _NH_BlinkSessionDidAddStream for a video stream, lines 1205-1207
MediaDidAddStream ==
    /\ session = "connected" /\ video /\ last = "will_add_stream"
    /\ Media("did_add_stream", Cur, AttachStream(frames))
    /\ UNCHANGED <<session, video>>

\* _NH_BlinkSessionDidNotAddStream for a video stream, lines 1209-1215
MediaDidNotAddStream ==
    /\ session = "connected" /\ video /\ last = "will_add_stream"
    /\ video' = FALSE
    /\ Media("did_not_add_stream", SessionDidNotAddVideo(Cur), DetachFrames(frames))
    /\ UNCHANGED session

\* _NH_BlinkSessionDidRemoveStream for a video stream, lines 1217-1223
MediaDidRemoveStream ==
    /\ session = "connected" /\ video
    /\ video' = FALSE
    /\ Media("did_remove_stream", HideVideo(Cur), DetachFrames(frames))
    /\ UNCHANGED session

\* _NH_BlinkSessionDidEnd, lines 1225-1230
MediaDidEnd ==
    /\ session \notin {"idle", "deleted"}
    /\ session' = "idle"
    /\ video' = FALSE
    /\ Media("did_end", HideVideo(Cur), DetachFrames(frames))

\* _NH_VideoDeviceDidChangeCamera, lines 1255-1257: the new camera is
\* attached to the preview, whatever the session does
CameraChanged ==
    /\ last # "camera_changed"
    /\ Commit(Cur)
    /\ last' = "camera_changed"
    /\ frames' = AttachCamera(frames)
    /\ UNCHANGED <<session, video, events, track, interaction, hover, previewDrag,
                   legs, protocol, raised, files, queued, saved, fault, chatInput>>

\* a producer hands a frame to the surface it is attached to, which caches it
FrameArrived ==
    /\ \E remote \in BOOLEAN :
          /\ IF remote THEN frames.producer /\ ~frames.image
                       ELSE frames.previewProducer /\ ~frames.previewImage
          /\ frames' = IF remote THEN [frames EXCEPT !.image = TRUE]
                                  ELSE [frames EXCEPT !.previewImage = TRUE]
    /\ Commit(Cur)
    /\ last' = "frame"
    /\ UNCHANGED <<session, video, events, track, interaction, hover, previewDrag,
                   legs, protocol, raised, files, queued, saved, fault, chatInput>>

\* a click on the screenshot button, lines 1345-1348 and 2627-2642: capture
\* copies _image, and passes when it is None; save is handed to the file-io
\* thread and writes nothing for a screenshot without an image
MediaScreenshotClick ==
    /\ visible /\ "screenshot" \in shown
    /\ queued + Len(saved) < MaxShots
    /\ Handle("screenshot_click", Cur)
    /\ queued' = IF frames.image THEN queued + 1 ELSE queued
    /\ UNCHANGED <<session, video, interaction, hover, previewDrag, legs, protocol,
                   raised, files, saved, fault, frames, chatInput>>

NextMedia ==
    \/ MediaWillConnect
    \/ MediaDidConnect
    \/ MediaWillAddStream
    \/ MediaDidAddStream
    \/ MediaDidNotAddStream
    \/ MediaDidRemoveStream
    \/ MediaDidEnd
    \/ CameraChanged
    \/ FrameArrived
    \/ KeyFrame
    \/ PreviewAnimationTick
    \/ MediaScreenshotClick
    \/ SaveScreenshot

SpecMedia == Init /\ [][NextMedia]_vars

\* C37: the handler of the end of the session, of the removal of the video
\* stream and of a video stream that is not added leaves the overlay hidden,
\* no producer attached to the overlay or to the camera preview and no image
\* cached in either; a click on the screenshot button while the overlay has
\* no image queues no save, writes no file and raises nothing.
C37_FramesReleased ==
    [][/\ last' \in {"did_end", "did_remove_stream", "did_not_add_stream"} =>
             /\ ~visible'
             /\ ~frames'.producer /\ ~frames'.previewProducer
             /\ ~frames'.image /\ ~frames'.previewImage
       /\ (MediaScreenshotClick /\ ~frames.image) =>
             /\ queued' = queued /\ files' = files /\ saved' = saved
             /\ fault' = fault /\ raised' = raised]_vars

\* the video stream is removed after a screenshot of it was saved: the image
\* that was cached is gone
C37_ReleasedAfterShot ==
    /\ last = "did_remove_stream" /\ ~visible
    /\ Len(saved) = 1 /\ frames = DetachFrames(frames)

(***************************************************************************)
(* The idle timer while the pointer is over a tool button.                 *)
(***************************************************************************)
\* the pointer is over a tool button that is on the screen
OverButton == hover # "none" /\ hover \in shown /\ visible

\* C38: the Enter event of a tool button stops the idle timer and its Leave
\* event starts it; while the pointer stays over a tool button that stays on
\* the screen, no handler starts the idle timer.
C38_StoppedWhileOver ==
    [][/\ last' = "button_enter" => ~idleTimer'
       /\ last' = "button_leave" => idleTimer'
       /\ (OverButton /\ OverButton' /\ hover' = hover /\ ~idleTimer) =>
             ~idleTimer']_vars

\* the preview animation has finished and started the idle timer, with the
\* pointer over one of the six tool buttons of the overlay
C38_StartedWhileOver ==
    /\ last = "preview_finished" /\ OverButton
    /\ idleTimer /\ active = Buttons

(***************************************************************************)
(* ChatTextInput: the locks of the input and the history of what was       *)
(* entered.                                                                *)
(***************************************************************************)
LockTypes == {"EncryptionLock", "OtherLock"}
Documents == {<<"a">>, <<"a", "">>, <<"b">>, EmptyDocument}
MaxHistory == 3

Range(seq) == {seq[i] : i \in 1..Len(seq)}

\* a handler of the input starts: nothing is emitted yet, nothing raised
Called(c, name, arg) ==
    [c EXCEPT !.call = [name |-> name, arg |-> arg], !.emitted = <<>>,
              !.entered = <<>>, !.error = FALSE]

Emit(c, signal, arg) ==
    [c EXCEPT !.emitted = Append(@, [signal |-> signal, arg |-> arg])]

\* variant: lock() without the test of line 511
LockAgain(c, lock_type) ==
    LET a == IF c.lock_queue = <<>>
             THEN Emit([c EXCEPT !.lockShown = TRUE, !.readOnly = TRUE],
                       "lockEngaged", lock_type)
             ELSE c
    IN  [a EXCEPT !.lock_queue = Append(@, lock_type)]

\* ChatTextInput.lock, lines 510-519
Lock(c, lock_type) ==
    IF lock_type \in Range(c.lock_queue)
    THEN [c EXCEPT !.error = TRUE]
    ELSE LET a == IF c.lock_queue = <<>>
                  THEN Emit([c EXCEPT !.lockShown = TRUE, !.readOnly = TRUE],
                            "lockEngaged", lock_type)
                  ELSE c
         IN  [a EXCEPT !.lock_queue = Append(@, lock_type)]

\* ChatTextInput._SH_LockWidgetConfirmButtonClicked, lines 499-508; popleft()
\* of an empty deque raises IndexError
LockWidgetConfirmButtonClicked(c) ==
    IF c.lock_queue = <<>>
    THEN [c EXCEPT !.error = TRUE]
    ELSE LET a == Emit([c EXCEPT !.lock_queue = Tail(@)], "lockReleased",
                       Head(c.lock_queue))
         IN  IF a.lock_queue # <<>>
             THEN Emit(a, "lockEngaged", Head(a.lock_queue))
             ELSE [a EXCEPT !.lockShown = FALSE, !.readOnly = FALSE]

\* ChatTextInput.reset_locks, lines 521-524
ResetLocks(c) ==
    [c EXCEPT !.readOnly = FALSE, !.lockShown = FALSE, !.lock_queue = <<>>]

\* seq[k] of Python, for a list: k counts from the end when it is negative
InRange(seq, k) == k >= -Len(seq) /\ k < Len(seq)
Item(seq, k) == seq[IF k < 0 THEN Len(seq) + k + 1 ELSE k + 1]

\* document.characterCount() > 1 or last_block.textList(), lines 454 and 438:
\* the input has no lists
NonEmpty(document) == document # EmptyDocument

\* lines 460-464: the empty block at the end of the text is taken away
WithoutEmptyLastBlock(document) ==
    IF Len(document) > 1 /\ document[Len(document)] = ""
    THEN SubSeq(document, 1, Len(document) - 1)
    ELSE document

\* variant: Enter leaves the index of the history where it is
EnterPressedKeepsIndex(c) ==
    IF NonEmpty(c.text)
    THEN LET text == ToHtml(c.text)
             a == IF c.history = <<>> \/ Item(c.history, -1) # text
                  THEN [c EXCEPT !.history = Append(@, text)]
                  ELSE c
         IN  [a EXCEPT !.stashed_content = <<>>, !.text = EmptyDocument,
                       !.entered = <<ToHtml(WithoutEmptyLastBlock(c.text))>>]
    ELSE c

\* keyPressEvent for Enter or Return without modifiers, lines 452-467
EnterPressed(c) ==
    IF NonEmpty(c.text)
    THEN LET text == ToHtml(c.text)
             a == IF c.history = <<>> \/ Item(c.history, -1) # text
                  THEN [c EXCEPT !.history = Append(@, text)]
                  ELSE c
         IN  [a EXCEPT !.history_index = 0, !.stashed_content = <<>>,
                       !.text = EmptyDocument,
                       !.entered = <<ToHtml(WithoutEmptyLastBlock(c.text))>>]
    ELSE c

\* keyPressEvent for Ctrl+Up, lines 468-478
CtrlUpPressed(c) ==
    IF ~InRange(c.history, c.history_index - 1)
    THEN c
    ELSE LET a == IF c.history_index = 0
                  THEN [c EXCEPT !.stashed_content = <<ToHtml(c.text)>>,
                                 !.typed = c.text]
                  ELSE c
         IN  [a EXCEPT !.history_index = @ - 1,
                       !.text = FromHtml(Item(c.history, c.history_index - 1))]

\* keyPressEvent for Ctrl+Down, lines 479-489; setHtml(None) raises
CtrlDownPressed(c) ==
    IF c.history_index = 0
    THEN c
    ELSE IF c.history_index = -1
    THEN IF c.stashed_content = <<>>
         THEN [c EXCEPT !.history_index = 0, !.error = TRUE]
         ELSE [c EXCEPT !.history_index = 0,
                        !.text = FromHtml(c.stashed_content[1]),
                        !.stashed_content = <<>>]
    ELSE [c EXCEPT !.history_index = @ + 1,
                   !.text = FromHtml(Item(c.history, c.history_index + 1))]

\* ChatTextInput.keyPressEvent, lines 449-494: a read-only input ignores the
\* key; any other key goes to QTextEdit, which edits the document
KeyPressEvent(c, key, document) ==
    IF c.readOnly THEN c
    ELSE IF key = "Enter" THEN EnterPressed(c)
    ELSE IF key = "Ctrl+Up" THEN CtrlUpPressed(c)
    ELSE IF key = "Ctrl+Down" THEN CtrlDownPressed(c)
    ELSE [c EXCEPT !.text = document]

\* the variables of the overlay, which the chat input leaves alone
overlay == <<parent, geometry, visible, fullScreen, normalGeometry, container,
             detachChecked, fullscreenChecked, active, shown, detachAnim,
             previewAnim, preview, scaleFactor, previewMaxHeight,
             previewInteractive, idleTimer, cursor, session, video, events,
             last, track, interaction, hover, previewDrag, legs, protocol,
             raised, files, queued, saved, fault, frames>>

\* lock(lock_type) is called, for instance when the encryption of the chat
\* stream is finished (line 2282)
ChatLock ==
    /\ \E lock_type \in LockTypes :
          chatInput' = Lock(Called(chatInput, "lock", lock_type), lock_type)
    /\ UNCHANGED overlay

\* a click on the confirm button of the lock widget, which is on the screen
ChatConfirm ==
    /\ chatInput.lockShown
    /\ chatInput' = LockWidgetConfirmButtonClicked(Called(chatInput, "confirm", "None"))
    /\ UNCHANGED overlay

\* reset_locks() is called: the session has ended or the chat stream is
\* removed (lines 858-868)
ChatResetLocks ==
    /\ chatInput' = ResetLocks(Called(chatInput, "reset_locks", "None"))
    /\ UNCHANGED overlay

\* the user types: the input holds another document
ChatType ==
    /\ \E document \in Documents \ {chatInput.text} :
          chatInput' = KeyPressEvent(Called(chatInput, "key", "None"), "Other",
                                     document)
    /\ UNCHANGED overlay

ChatEnter ==
    /\ Len(chatInput.history) < MaxHistory
    /\ chatInput' = KeyPressEvent(Called(chatInput, "Enter", "None"), "Enter",
                                  chatInput.text)
    /\ UNCHANGED overlay

ChatCtrlUp ==
    /\ chatInput' = KeyPressEvent(Called(chatInput, "Ctrl+Up", "None"), "Ctrl+Up",
                                  chatInput.text)
    /\ UNCHANGED overlay

ChatCtrlDown ==
    /\ chatInput' = KeyPressEvent(Called(chatInput, "Ctrl+Down", "None"),
                                  "Ctrl+Down", chatInput.text)
    /\ UNCHANGED overlay

NextChat ==
    \/ ChatLock
    \/ ChatConfirm
    \/ ChatResetLocks
    \/ ChatType
    \/ ChatEnter
    \/ ChatCtrlUp
    \/ ChatCtrlDown

SpecChat == Init /\ [][NextChat]_vars

(***************************************************************************)
(* The locks of the chat input.                                            *)
(***************************************************************************)
NoDuplicates(seq) == \A i, j \in 1..Len(seq) : seq[i] = seq[j] => i = j

\* C39: after any sequence of lock(type), clicks on the confirm button and
\* reset_locks(), no lock type is twice in the queue, and the input is
\* read-only and the lock widget on the screen exactly when the queue is not
\* empty; lock() of a type that is in the queue raises and leaves the queue
\* as it is; a click on the confirm button takes the oldest lock off the
\* queue and emits lockReleased for it, and then lockEngaged for the lock
\* that is the oldest now, if there is one; reset_locks() empties the queue
\* and leaves the input writable.
C39_LockQueue ==
    [][LET c == chatInput
           d == chatInput'
       IN  /\ NoDuplicates(d.lock_queue)
           /\ d.readOnly <=> d.lock_queue # <<>>
           /\ d.lockShown <=> d.lock_queue # <<>>
           /\ d.call.name = "lock" =>
                 IF d.call.arg \in Range(c.lock_queue)
                 THEN d.error /\ d.lock_queue = c.lock_queue /\ d.emitted = <<>>
                 ELSE /\ ~d.error /\ d.lock_queue = Append(c.lock_queue, d.call.arg)
                      /\ Head(d.lock_queue) = (IF c.lock_queue = <<>> THEN d.call.arg
                                               ELSE Head(c.lock_queue))
           /\ d.call.name = "confirm" =>
                 /\ ~d.error
                 /\ d.lock_queue = Tail(c.lock_queue)
                 /\ d.emitted[1] = [signal |-> "lockReleased", arg |-> Head(c.lock_queue)]
                 /\ IF d.lock_queue # <<>>
                    THEN d.emitted = <<d.emitted[1],
                                       [signal |-> "lockEngaged",
                                        arg |-> Head(d.lock_queue)]>>
                    ELSE Len(d.emitted) = 1
           /\ d.call.name = "reset_locks" =>
                 d.lock_queue = <<>> /\ ~d.readOnly /\ ~d.lockShown]_vars

\* the confirm button has released the older of two locks and engaged the
\* younger
C39_SecondLockEngaged ==
    /\ chatInput.call.name = "confirm"
    /\ chatInput.lock_queue = <<"OtherLock">>
    /\ chatInput.readOnly /\ chatInput.lockShown
    /\ chatInput.emitted = <<[signal |-> "lockReleased", arg |-> "EncryptionLock"],
                             [signal |-> "lockEngaged", arg |-> "OtherLock"]>>

(***************************************************************************)
(* The history of the chat input.                                          *)
(***************************************************************************)
\* the index stays within the history
IndexInHistory(c) == -Len(c.history) <= c.history_index /\ c.history_index <= 0

\* the stash is filled by the step that leaves index 0, and by no other; the
\* Ctrl+Down that comes back to index 0 puts the document that was typed
\* back and empties the stash
StashedAndRestored(c, d) ==
    /\ (c.history_index = 0 /\ d.history_index # 0) =>
          d.call.name = "Ctrl+Up" /\ d.stashed_content = <<ToHtml(c.text)>>
    /\ (d.stashed_content # c.stashed_content /\ d.stashed_content # <<>>) =>
          c.history_index = 0 /\ d.history_index = -1
    /\ (d.call.name = "Ctrl+Down" /\ c.history_index = -1 /\ d.history_index = 0) =>
          d.text = c.typed /\ d.stashed_content = <<>> /\ ~d.error
    /\ d.history_index # 0 => d.stashed_content = <<ToHtml(d.typed)>>

\* Enter has reset the index, emptied the stash and put the text at the end
\* of the history unless it was there
Entered(c, d) ==
    /\ d.history_index = 0
    /\ d.stashed_content = <<>>
    /\ d.history = IF c.history # <<>> /\ c.history[Len(c.history)] = ToHtml(c.text)
                   THEN c.history
                   ELSE Append(c.history, ToHtml(c.text))

=============================================================================
